---- MODULE Spec2Model ----
(***************************************************************************)
(* A model of the Diet Plan AI agent system: the AgentCoordinator request  *)
(* pipeline (sanitise, intent analysis, primary routing, collaboration,    *)
(* compilation) and the three handlers it drives.  Text is modelled as     *)
(* text: messages, keywords and exception texts are strings, and keyword   *)
(* matching is Python's substring test.                                    *)
(***************************************************************************)
EXTENDS Integers, Sequences, FiniteSets, TLC

(***************************************************************************)
(* Bounds of the model.                                                    *)
(***************************************************************************)
\* the number of vocabulary words a user message is made of, at most
MaxWords == 3

\* ticks of the clock in one second
TicksPerSecond == 2

\* turns that one user's script of prompts has
MaxTurns == 52

\* generate_response calls made through the agent instance in a run
MaxCalls == 53

\* of these, the calls that store no turn (no answer, or no user id)
MaxUnstored == 1

\* the last tick of the clock in a run of concurrent calls
MaxTime == 6

\* ticks that one call of the text backend can take
MaxLatency == 1

\* generate_response calls that one request makes, one after the other
MaxRequestCalls == 2

\* the largest numeral of a quantity phrase (the claims' 200 is added)
MaxNumeral == 12

\* words in a message of the request-type check
MaxTypeWords == 2

\* days of meals in the store of the trend analysis
MaxDays == 15

\* chat sessions ever created
MaxSessions == 3

\* requests made to the chat and session endpoints
MaxOps == 3

\* generate_response calls made on the second agent instance
MaxPeerCalls == 2

\* calls that the first agent instance has answered before the second is used
MaxSeedCalls == 50

\* fields of the profile that one PUT /user/profile sets
MaxProfileKeys == 1

(***************************************************************************)
(* Python string primitives.                                               *)
(***************************************************************************)
\* a dictionary key or field that is not present
Absent == "<absent>"

\* s[i], 1-based
CharAt(s, i) == SubSeq(s, i, i)

\* s[i:], 1-based
Tail_(s, i) == SubSeq(s, i, Len(s))

\* Python's `k in s` on strings
Contains(k, s) ==
    \E i \in 1..(Len(s) - Len(k) + 1) : SubSeq(s, i, i + Len(k) - 1) = k

\* the first position (1-based) at which k occurs in s, 0 when it does not
Find(k, s) ==
    IF Contains(k, s)
    THEN CHOOSE i \in 1..(Len(s) - Len(k) + 1) :
            /\ SubSeq(s, i, i + Len(k) - 1) = k
            /\ \A j \in 1..(i - 1) : SubSeq(s, j, j + Len(k) - 1) # k
    ELSE 0

LowerChar(c) ==
    CASE c = "A" -> "a" [] c = "B" -> "b" [] c = "C" -> "c" [] c = "D" -> "d"
      [] c = "E" -> "e" [] c = "F" -> "f" [] c = "G" -> "g" [] c = "H" -> "h"
      [] c = "I" -> "i" [] c = "J" -> "j" [] c = "K" -> "k" [] c = "L" -> "l"
      [] c = "M" -> "m" [] c = "N" -> "n" [] c = "O" -> "o" [] c = "P" -> "p"
      [] c = "Q" -> "q" [] c = "R" -> "r" [] c = "S" -> "s" [] c = "T" -> "t"
      [] c = "U" -> "u" [] c = "V" -> "v" [] c = "W" -> "w" [] c = "X" -> "x"
      [] c = "Y" -> "y" [] c = "Z" -> "z" [] OTHER -> c

RECURSIVE lower(_)
\* str.lower()
lower(s) ==
    IF Len(s) <= 1 THEN LowerChar(s)
    ELSE lower(SubSeq(s, 1, Len(s) \div 2)) \o lower(SubSeq(s, Len(s) \div 2 + 1, Len(s)))

IsSpace(c) == c \in {" ", "\t", "\n", "\r"}

RECURSIVE lstrip(_)
lstrip(s) ==
    IF s # "" /\ IsSpace(CharAt(s, 1)) THEN lstrip(Tail_(s, 2)) ELSE s

RECURSIVE rstrip(_)
rstrip(s) ==
    IF s # "" /\ IsSpace(CharAt(s, Len(s)))
    THEN rstrip(SubSeq(s, 1, Len(s) - 1))
    ELSE s

\* str.strip()
strip(s) == rstrip(lstrip(s))

RECURSIVE split(_)
\* str.split(): the whitespace-separated words of s, in order
split(s) ==
    LET t == lstrip(s)
    IN  IF t = "" THEN <<>>
        ELSE LET n == CHOOSE k \in 1..Len(t) :
                        /\ \A j \in 1..k : ~IsSpace(CharAt(t, j))
                        /\ (k = Len(t) \/ IsSpace(CharAt(t, k + 1)))
             IN  <<SubSeq(t, 1, n)>> \o split(Tail_(t, n + 1))

(***************************************************************************)
(* backend/utils/security.py                                               *)
(***************************************************************************)
\* sanitized[:1000]
MaxInputLen == 1000

\* html.escape(c) for one character (quote=True)
EscapeChar(c) ==
    CASE c = "&" -> "&amp;"
      [] c = "<" -> "&lt;"
      [] c = ">" -> "&gt;"
      [] c = "\"" -> "&quot;"
      [] c = "'" -> "&#x27;"
      [] OTHER -> c

RECURSIVE html_escape(_)
html_escape(s) ==
    IF s = "" THEN "" ELSE EscapeChar(CharAt(s, 1)) \o html_escape(Tail_(s, 2))

RECURSIVE remove_dangerous(_)
\* re.sub(r'[<>"\']', '', sanitized)
remove_dangerous(s) ==
    IF s = "" THEN ""
    ELSE (IF CharAt(s, 1) \in {"<", ">", "\"", "'"} THEN "" ELSE CharAt(s, 1))
            \o remove_dangerous(Tail_(s, 2))

\* sanitize_input(text) for a str argument
sanitize_input(text) ==
    LET escaped == remove_dangerous(html_escape(text))
        cut == SubSeq(escaped, 1, IF Len(escaped) < MaxInputLen
                                  THEN Len(escaped) ELSE MaxInputLen)
    IN  strip(cut)

(***************************************************************************)
(* backend/agents/coordinator.py: the routing tables.                      *)
(***************************************************************************)
\* self.agents, in insertion order
AgentOrder == <<"nutrition_calculator", "recipe_finder", "diet_tracker">>

Agents == {AgentOrder[i] : i \in DOMAIN AgentOrder}

\* self.routing_rules, in insertion order
routing_rules ==
    << [keyword |-> "nutrition",   agent |-> "nutrition_calculator"],
       [keyword |-> "calories",    agent |-> "nutrition_calculator"],
       [keyword |-> "nutrients",   agent |-> "nutrition_calculator"],
       [keyword |-> "analyze",     agent |-> "nutrition_calculator"],
       [keyword |-> "calculate",   agent |-> "nutrition_calculator"],
       [keyword |-> "recipe",      agent |-> "recipe_finder"],
       [keyword |-> "cooking",     agent |-> "recipe_finder"],
       [keyword |-> "meal",        agent |-> "recipe_finder"],
       [keyword |-> "ingredients", agent |-> "recipe_finder"],
       [keyword |-> "substitute",  agent |-> "recipe_finder"],
       [keyword |-> "track",       agent |-> "diet_tracker"],
       [keyword |-> "log",         agent |-> "diet_tracker"],
       [keyword |-> "progress",    agent |-> "diet_tracker"],
       [keyword |-> "goal",        agent |-> "diet_tracker"],
       [keyword |-> "summary",     agent |-> "diet_tracker"],
       [keyword |-> "insight",     agent |-> "diet_tracker"] >>

\* type_keywords of _determine_request_type, in insertion order
type_keywords ==
    << [request_type |-> "analyze_food",    keywords |-> {"analyze", "nutrition", "breakdown"}],
       [request_type |-> "search_food",     keywords |-> {"search", "find food", "lookup"}],
       [request_type |-> "find_recipes",    keywords |-> {"recipe", "cooking", "meal ideas"}],
       [request_type |-> "log_food",        keywords |-> {"log", "add", "record", "ate"}],
       [request_type |-> "daily_summary",   keywords |-> {"summary", "today", "progress"}],
       [request_type |-> "recommendations", keywords |-> {"suggest", "recommend", "advice"}] >>

\* collaboration_triggers of _determine_collaboration_needs, in insertion order
collaboration_triggers ==
    << [trigger |-> "meal plan",        agents |-> <<"recipe_finder", "nutrition_calculator">>],
       [trigger |-> "recipe nutrition", agents |-> <<"recipe_finder", "nutrition_calculator">>],
       [trigger |-> "track recipe",     agents |-> <<"recipe_finder", "diet_tracker">>],
       [trigger |-> "nutritional goal", agents |-> <<"nutrition_calculator", "diet_tracker">>],
       [trigger |-> "healthy recipe",   agents |-> <<"recipe_finder", "nutrition_calculator">>] >>

(***************************************************************************)
(* backend/agents/coordinator.py: intent analysis.                         *)
(***************************************************************************)
RECURSIVE score_agents(_, _, _)
\* for keyword, agent in self.routing_rules.items():
\*     if keyword in message_lower: agent_scores[agent] += 1
score_agents(rules, message_lower, agent_scores) ==
    IF rules = <<>> THEN agent_scores
    ELSE score_agents(Tail(rules), message_lower,
            IF Contains(Head(rules).keyword, message_lower)
            THEN [agent_scores EXCEPT ![Head(rules).agent] = @ + 1]
            ELSE agent_scores)

RECURSIVE max_by_score_last(_, _, _)
\* max_by_score_from with >= for >: the last of the equal maxima wins
max_by_score_last(order, agent_scores, best) ==
    IF order = <<>> THEN best
    ELSE max_by_score_last(Tail(order), agent_scores,
            IF agent_scores[Head(order)] >= agent_scores[best]
            THEN Head(order) ELSE best)

RECURSIVE max_by_score_from(_, _, _)
\* the fold that max() makes over the keys after the first
max_by_score_from(order, agent_scores, best) ==
    IF order = <<>> THEN best
    ELSE max_by_score_from(Tail(order), agent_scores,
            IF agent_scores[Head(order)] > agent_scores[best]
            THEN Head(order) ELSE best)

\* max(agent_scores, key=agent_scores.get): the first key, in the dict's
\* order, whose score no later key exceeds
max_by_score(agent_scores) ==
    max_by_score_from(Tail(AgentOrder), agent_scores, Head(AgentOrder))

\* the primary agent: the maximum, or the default when its score is 0
select_primary(agent_scores) ==
    LET primary_agent == max_by_score(agent_scores)
    IN  IF agent_scores[primary_agent] = 0
        THEN "nutrition_calculator"
        ELSE primary_agent

RECURSIVE first_request_type(_, _)
first_request_type(table, message) ==
    IF table = <<>> THEN "general"
    ELSE IF \E keyword \in Head(table).keywords : Contains(keyword, message)
         THEN Head(table).request_type
         ELSE first_request_type(Tail(table), message)

\* _determine_request_type over the table in reverse order
determine_request_type_reversed(message) ==
    first_request_type([i \in DOMAIN type_keywords |->
                            type_keywords[Len(type_keywords) + 1 - i]], message)

\* _determine_request_type(message)
determine_request_type(message) == first_request_type(type_keywords, message)

RECURSIVE last_trigger(_, _)
\* first_trigger without the early return: the last trigger found wins
last_trigger(table, message) ==
    IF table = <<>> THEN <<>>
    ELSE LET later == last_trigger(Tail(table), message)
         IN  IF later # <<>> THEN later
             ELSE IF Contains(Head(table).trigger, message)
             THEN Head(table).agents
             ELSE <<>>

RECURSIVE first_trigger(_, _)
\* the agents of the first trigger found in the message, <<>> when none is
first_trigger(table, message) ==
    IF table = <<>> THEN <<>>
    ELSE IF Contains(Head(table).trigger, message)
         THEN Head(table).agents
         ELSE first_trigger(Tail(table), message)

RECURSIVE high_scoring(_, _)
\* [agent for agent, score in agent_scores.items() if score > 0]
high_scoring(order, agent_scores) ==
    IF order = <<>> THEN <<>>
    ELSE (IF agent_scores[Head(order)] > 0 THEN <<Head(order)>> ELSE <<>>)
            \o high_scoring(Tail(order), agent_scores)

\* _determine_collaboration_needs(message, agent_scores)
determine_collaboration_needs(message, agent_scores) ==
    LET triggered == first_trigger(collaboration_triggers, message)
        high_scoring_agents == high_scoring(AgentOrder, agent_scores)
    IN  IF triggered # <<>> THEN triggered
        ELSE IF Len(high_scoring_agents) > 1 THEN high_scoring_agents
        ELSE <<>>

\* _analyze_user_intent(message, context)
analyze_user_intent(message) ==
    LET message_lower == lower(message)
        agent_scores == score_agents(routing_rules, message_lower,
                                     [agent \in Agents |-> 0])
    IN  [ primary_agent        |-> select_primary(agent_scores),
          request_type         |-> determine_request_type(message_lower),
          collaboration_needed |-> determine_collaboration_needs(message_lower, agent_scores),
          agent_scores         |-> agent_scores ]

(***************************************************************************)
(* backend/agents/recipe_finder.py: _extract_recipe_query.  The regular    *)
(* expressions are modelled for single-line text (no "\n"), which is what   *)
(* a vocabulary message is.                                                *)
(***************************************************************************)
\* k occurs in s at position i (1-based)
At(k, s, i) ==
    /\ i >= 1
    /\ i + Len(k) - 1 <= Len(s)
    /\ SubSeq(s, i, i + Len(k) - 1) = k

MinOf(S) == CHOOSE x \in S : \A y \in S : x <= y

\* \w
IsWordChar(c) ==
    c \in { "a", "b", "c", "d", "e", "f", "g", "h", "i", "j", "k", "l", "m",
            "n", "o", "p", "q", "r", "s", "t", "u", "v", "w", "x", "y", "z",
            "A", "B", "C", "D", "E", "F", "G", "H", "I", "J", "K", "L", "M",
            "N", "O", "P", "Q", "R", "S", "T", "U", "V", "W", "X", "Y", "Z",
            "0", "1", "2", "3", "4", "5", "6", "7", "8", "9", "_" }

\* the group (.+?)(?:\?|$) that starts at position g: up to the first "?"
\* after at least one character, or to the end of the text
LazyGroupFrom(s, g) ==
    LET stops == {e \in g..Len(s) : e = Len(s) \/ CharAt(s, e + 1) = "?"}
    IN  SubSeq(s, g, MinOf(stops))

\* where the group of `\s+(.+?)` starts when the \s+ starts at position w:
\* after the whitespace run, or on its last character when the run ends
\* the text; 0 when there is no match
GroupStartAfterSpaces(s, w) ==
    IF w > Len(s) \/ ~IsSpace(CharAt(s, w)) THEN 0
    ELSE LET run_end == CHOOSE r \in w..Len(s) :
                            /\ \A j \in w..r : IsSpace(CharAt(s, j))
                            /\ (r = Len(s) \/ ~IsSpace(CharAt(s, r + 1)))
         IN  IF run_end < Len(s) THEN run_end + 1
             ELSE IF run_end > w THEN run_end
             ELSE 0

\* the positions k >= from of a (?:for|with|using) that `\s+(.+?)` can follow
PrepositionsFrom(s, from) ==
    {k \in from..Len(s) :
        \E prep \in {"for", "with", "using"} :
            /\ At(prep, s, k)
            /\ GroupStartAfterSpaces(s, k + Len(prep)) # 0}

PrepositionEnd(s, k) ==
    k + Len(CHOOSE prep \in {"for", "with", "using"} : At(prep, s, k))

\* recipes?.*?(?:for|with|using)\s+(.+?)(?:\?|$), searched from position from:
\* the group, or Absent
RecipePrepositionGroup(s, from) ==
    LET recipes == {i \in from..Len(s) :
                        At("recipe", s, i) /\ PrepositionsFrom(s, i + 6) # {}}
    IN  IF recipes = {} THEN Absent
        ELSE LET k == MinOf(PrepositionsFrom(s, MinOf(recipes) + 6))
             IN  LazyGroupFrom(s, GroupStartAfterSpaces(s, PrepositionEnd(s, k)))

\* (?:find|search|get|show).*?recipes?.*?(?:for|with|using)\s+(.+?)(?:\?|$)
Pattern1(s) ==
    LET verbs == {"find", "search", "get", "show"}
        starts == {v \in 1..Len(s) :
                     \E verb \in verbs :
                        /\ At(verb, s, v)
                        /\ RecipePrepositionGroup(s, v + Len(verb)) # Absent}
    IN  IF starts = {} THEN Absent
        ELSE LET v == MinOf(starts)
                 verb == CHOOSE x \in verbs : At(x, s, v)
             IN  RecipePrepositionGroup(s, v + Len(verb))

\* recipes?.*?(?:for|with|using)\s+(.+?)(?:\?|$)
Pattern2(s) == RecipePrepositionGroup(s, 1)

\* (?:recipe|cooking).*?(.+?)(?:\?|$)
Pattern3(s) ==
    LET starts == {i \in 1..Len(s) :
                     \E word \in {"recipe", "cooking"} :
                        At(word, s, i) /\ i + Len(word) <= Len(s)}
    IN  IF starts = {} THEN Absent
        ELSE LET i == MinOf(starts)
                 word == CHOOSE x \in {"recipe", "cooking"} : At(x, s, i)
             IN  LazyGroupFrom(s, i + Len(word))

\* (?:cook|make)\s+(.+?)(?:\?|$)
Pattern4(s) ==
    LET starts == {i \in 1..Len(s) :
                     \E word \in {"cook", "make"} :
                        At(word, s, i) /\ GroupStartAfterSpaces(s, i + 4) # 0}
    IN  IF starts = {} THEN Absent
        ELSE LazyGroupFrom(s, GroupStartAfterSpaces(s, MinOf(starts) + 4))

\* the text from position w on is \s+recipes?(?:\?|$)
SpacesRecipeEnd(s, w) ==
    /\ w <= Len(s)
    /\ IsSpace(CharAt(s, w))
    /\ \E r \in w..Len(s) :
        /\ \A j \in w..r : IsSpace(CharAt(s, j))
        /\ At("recipe", s, r + 1)
        /\ LET e == r + 6
           IN  \/ e = Len(s)
               \/ CharAt(s, e + 1) = "?"
               \/ /\ CharAt(s, e + 1) = "s"
                  /\ (e + 1 = Len(s) \/ CharAt(s, e + 2) = "?")

\* (.+?)\s+recipes?(?:\?|$)
Pattern5(s) ==
    LET ends == {n \in 1..Len(s) : SpacesRecipeEnd(s, n + 1)}
    IN  IF ends = {} THEN Absent ELSE SubSeq(s, 1, MinOf(ends))

RECURSIVE remove_common_words(_, _)
\* re.sub(r'\b(the|a|an|some|of|in|with)\b', '', query), from position i on
remove_common_words(s, i) ==
    IF i > Len(s) THEN ""
    ELSE LET words == <<"the", "a", "an", "some", "of", "in", "with">>
             boundary_before == i = 1 \/ ~IsWordChar(CharAt(s, i - 1))
             hits == {n \in DOMAIN words :
                        /\ At(words[n], s, i)
                        /\ \/ i + Len(words[n]) > Len(s)
                           \/ ~IsWordChar(CharAt(s, i + Len(words[n])))}
         IN  IF boundary_before /\ hits # {}
             THEN remove_common_words(s, i + Len(words[MinOf(hits)]))
             ELSE CharAt(s, i) \o remove_common_words(s, i + 1)

\* the cleaned query of a pattern's group, Absent when it is rejected
CleanQuery(group) ==
    IF group = Absent THEN Absent
    ELSE LET query == strip(remove_common_words(strip(group), 1))
         IN  IF query # "" /\ Len(query) > 2 THEN query ELSE Absent

RECURSIVE first_query(_)
first_query(groups) ==
    IF groups = <<>> THEN Absent
    ELSE IF CleanQuery(Head(groups)) # Absent THEN CleanQuery(Head(groups))
    ELSE first_query(Tail(groups))

food_keywords ==
    {"chicken", "beef", "pasta", "salmon", "vegetarian", "vegan", "soup",
     "salad", "dessert"}

\* _extract_recipe_query(message): the query, or Absent for None
extract_recipe_query(message) ==
    LET message_lower == lower(message)
        query == first_query(<< Pattern1(message_lower), Pattern2(message_lower),
                                Pattern3(message_lower), Pattern4(message_lower),
                                Pattern5(message_lower) >>)
    IN  IF query # Absent THEN query
        ELSE IF \E keyword \in food_keywords : Contains(keyword, message_lower)
        THEN strip(message)
        ELSE Absent

(***************************************************************************)
(* Python dictionaries.  A dict with string keys is a record holding the   *)
(* keys that are present; an insertion-ordered dict whose order matters    *)
(* (collaborations) is a sequence of <<key, value>> pairs.                 *)
(***************************************************************************)
\* the elements of a sequence
Range(seq) == {seq[i] : i \in DOMAIN seq}

\* d.get(key, default)
Get(d, key, default) == IF key \in DOMAIN d THEN d[key] ELSE default

\* d[key] = value
DictSet(d, key, value) ==
    [k \in DOMAIN d \cup {key} |-> IF k = key THEN value ELSE d[k]]

\* {}
EmptyDict == [k \in {} |-> Absent]

\* list(d.keys()) of an ordered dict
Keys(od) == [i \in DOMAIN od |-> od[i][1]]

\* d[key] = value on an ordered dict: a present key keeps its place
OrderedSet(od, key, value) ==
    IF \E i \in DOMAIN od : od[i][1] = key
    THEN [i \in DOMAIN od |-> IF od[i][1] = key THEN <<key, value>> ELSE od[i]]
    ELSE Append(od, <<key, value>>)

\* a Python str where a dict is expected, and the other way round
PyStr(text) == [py |-> "str", value |-> text]

(***************************************************************************)
(* What a handler call can do.  A handler's formatted and generated prose  *)
(* is the opaque SomeText; the literal texts of its error returns are      *)
(* kept.  An unexpected exception inside a handler is an environment       *)
(* choice (fault), with the text FaultText.                                *)
(***************************************************************************)
SomeText == "<text>"

FaultTexts == {"float division by zero"}

\* a call that returned `response`; fault: an exception was raised inside it
Returned(response, fault, exc) ==
    [raised |-> FALSE, response |-> response, fault |-> fault, exc |-> exc]

\* a call that raised exc to its caller
Raised(exc) ==
    [raised |-> TRUE, response |-> EmptyDict, fault |-> TRUE, exc |-> exc]

Ok(response) == Returned(response, FALSE, Absent)

\* the unexpected exceptions of a computation
Faults == {Raised(exc) : exc \in FaultTexts}

(***************************************************************************)
(* backend/agents/base_agent.py: validate_request.                         *)
(***************************************************************************)
\* validate_request(request) for a dict request
validate_request(request) ==
    IF "message" \notin DOMAIN request
    THEN [valid |-> FALSE, error |-> "Request must contain 'message' field"]
    ELSE [valid |-> TRUE]

(***************************************************************************)
(* backend/agents/nutrition_calculator.py                                  *)
(***************************************************************************)
NutritionName == "NutritionCalculator"

\* food_patterns of _extract_food_from_message, in order; a pattern is the
\* set of texts whose occurrence is a match of its regular expression
food_patterns ==
    << [texts |-> {"banana"}, food |-> "banana"],
       [texts |-> {"apple"}, food |-> "apple"],
       [texts |-> {"chicken"}, food |-> "chicken"],
       [texts |-> {"rice"}, food |-> "rice"],
       [texts |-> {"bread"}, food |-> "bread"],
       [texts |-> {"egg"}, food |-> "egg"],
       [texts |-> {"milk"}, food |-> "milk"],
       [texts |-> {"cheese"}, food |-> "cheese"],
       [texts |-> {"salmon"}, food |-> "salmon"],
       [texts |-> {"spinach"}, food |-> "spinach"],
       [texts |-> {"beef"}, food |-> "beef"],
       [texts |-> {"pork"}, food |-> "pork"],
       [texts |-> {"turkey"}, food |-> "turkey"],
       [texts |-> {"tuna"}, food |-> "tuna"],
       [texts |-> {"broccoli"}, food |-> "broccoli"],
       [texts |-> {"carrot"}, food |-> "carrot"],
       [texts |-> {"potato"}, food |-> "potato"],
       [texts |-> {"tomato"}, food |-> "tomato"],
       [texts |-> {"orange"}, food |-> "orange"],
       [texts |-> {"strawberry", "strawberries"}, food |-> "strawberry"],
       [texts |-> {"blueberry", "blueberries"}, food |-> "blueberry"],
       [texts |-> {"yogurt"}, food |-> "yogurt"],
       [texts |-> {"oat"}, food |-> "oats"],
       [texts |-> {"quinoa"}, food |-> "quinoa"],
       [texts |-> {"pasta"}, food |-> "pasta"],
       [texts |-> {"nut"}, food |-> "nuts"],
       [texts |-> {"almond"}, food |-> "almond"],
       [texts |-> {"avocado"}, food |-> "avocado"] >>

RECURSIVE strip_punctuation(_)
\* word.strip('.,!?')
strip_punctuation(word) ==
    IF word # "" /\ CharAt(word, 1) \in {".", ",", "!", "?"}
    THEN strip_punctuation(Tail_(word, 2))
    ELSE IF word # "" /\ CharAt(word, Len(word)) \in {".", ",", "!", "?"}
    THEN strip_punctuation(SubSeq(word, 1, Len(word) - 1))
    ELSE word

RECURSIVE first_food_word(_)
first_food_word(words) ==
    LET skip_words == {"the", "a", "an", "in", "of", "analyze", "nutrition",
                       "calculate", "calories", "nutrients"}
    IN  IF words = <<>> THEN Absent
        ELSE LET word == strip_punctuation(Head(words))
             IN  IF word \notin skip_words /\ Len(word) > 2 THEN word
                 ELSE first_food_word(Tail(words))

\* _ai_extract_food_name(message): the word, or Absent for None
ai_extract_food_name(message) == first_food_word(split(lower(message)))

RECURSIVE first_food_pattern(_, _)
first_food_pattern(patterns, message_lower) ==
    IF patterns = <<>> THEN Absent
    ELSE IF \E text \in Head(patterns).texts : Contains(text, message_lower)
         THEN Head(patterns).food
         ELSE first_food_pattern(Tail(patterns), message_lower)

\* _extract_food_from_message(message): the food, or Absent for None
extract_food_from_message(message) ==
    LET found == first_food_pattern(food_patterns, lower(message))
    IN  IF found # Absent THEN found ELSE ai_extract_food_name(message)

\* _analyze_food_item(food_data, context): what the call does.  The lookup,
\* the estimate and the insights are calls that may raise; the nutrient
\* values of food_analysis are not modelled here.
analyze_food_item(food_data) ==
    IF Get(food_data, "py", "dict") = "str"
    THEN {Raised("'str' object has no attribute 'get'")}
    ELSE IF Get(food_data, "name", "") = ""
    THEN {Ok([error |-> "Food name is required", agent |-> NutritionName])}
    ELSE {Ok([agent |-> NutritionName,
              food_analysis |-> [food_name |-> food_data.name],
              ai_insights |-> SomeText,
              data_source |-> data_source,
              status |-> "success"]) : data_source \in {"USDA", "AI_Estimation"}}
         \cup Faults

\* _search_food_database(query, context)
search_food_database(query) ==
    IF query = ""
    THEN {Ok([error |-> "Search query is required", agent |-> NutritionName])}
    ELSE {Ok([agent |-> NutritionName, search_results |-> SomeText,
              status |-> "success"]),
          Ok([agent |-> NutritionName, ai_suggestions |-> SomeText,
              status |-> "success"])} \cup Faults

\* _calculate_recipe_nutrition(recipe, context): the loop calls
\* _analyze_food_item on each ingredient, and the first call that raises
\* ends it
calculate_recipe_nutrition(recipe) ==
    LET ingredients == Get(recipe, "ingredients", <<>>)
        raising == {i \in DOMAIN ingredients :
                        \E o \in analyze_food_item(ingredients[i]) :
                            o.raised /\ o.exc \notin FaultTexts}
    IN  IF ingredients = <<>>
        THEN {Ok([error |-> "Recipe ingredients are required",
                  agent |-> NutritionName])}
        ELSE IF raising # {}
        THEN {Raised("'str' object has no attribute 'get'")}
        ELSE {Ok([agent |-> NutritionName, recipe_nutrition |-> SomeText,
                  ai_insights |-> SomeText, status |-> "success"])} \cup Faults

\* _general_nutrition_query(message, context)
general_nutrition_query(message) ==
    LET asks_analysis == \E keyword \in {"analyze", "nutrition", "calories",
                                         "nutrients", "calculate"} :
                            Contains(keyword, lower(message))
        detected_food == extract_food_from_message(message)
        general == [agent |-> NutritionName, response |-> SomeText,
                    type |-> "general_nutrition", status |-> "success"]
    IN  IF asks_analysis /\ detected_food # Absent
        THEN {Ok([agent |-> NutritionName, response |-> SomeText,
                  food_analysis |-> [food_name |-> detected_food],
                  type |-> "food_analysis", status |-> "success"])} \cup Faults
        ELSE {Ok(general)} \cup Faults

\* the except clause of NutritionCalculatorAgent.process_request
nutrition_except(outcome) ==
    IF outcome.raised
    THEN Returned([error |-> "I encountered an error while processing your nutrition request.",
                   agent |-> NutritionName,
                   status |-> "error"], TRUE, outcome.exc)
    ELSE outcome

\* NutritionCalculatorAgent.process_request(request, context)
nutrition_process_request(request, context) ==
    LET validation == validate_request(request)
    IN  IF ~validation.valid
        THEN {Ok([error |-> validation.error, agent |-> NutritionName])}
        ELSE LET message == sanitize_input(request.message)
                 request_type == Get(request, "type", "general")
                 body ==
                    CASE request_type = "analyze_food" ->
                            analyze_food_item(Get(request, "food_data", EmptyDict))
                      [] request_type = "search_food" ->
                            search_food_database(Get(request, "query", ""))
                      [] request_type = "calculate_recipe" ->
                            calculate_recipe_nutrition(Get(request, "recipe", EmptyDict))
                      [] request_type = "daily_analysis" ->
                            {Ok([agent |-> NutritionName, daily_analysis |-> SomeText,
                                 status |-> "success"])} \cup Faults
                      [] OTHER -> general_nutrition_query(message)
             IN  {nutrition_except(outcome) : outcome \in body}

(***************************************************************************)
(* backend/agents/recipe_finder.py                                         *)
(***************************************************************************)
RecipeName == "RecipeFinder"

\* what _search_spoonacular_recipes can return: no recipe, or recipes as it
\* builds them, with 'ingredients' a list of strings
SpoonacularResults ==
    { <<>>,
      << [title |-> "Unknown Recipe", ingredients |-> <<>>] >>,
      << [title |-> "Oatmeal Bowl", ingredients |-> <<PyStr("1 cup oats")>>] >> }

\* the return value of _general_recipe_response(message, context)
general_recipe_response ==
    [agent |-> RecipeName, response |-> SomeText, type |-> "general_recipe",
     status |-> "success"]

\* the except clause of RecipeFinderAgent.process_request: it answers with
\* _general_recipe_response, a call that may raise in its turn
recipe_except(outcome) ==
    IF outcome.raised
    THEN {Returned(general_recipe_response, TRUE, outcome.exc), outcome}
    ELSE {outcome}

\* RecipeFinderAgent.process_request(request, context)
recipe_process_request(request, context) ==
    LET message == sanitize_input(Get(request, "message", ""))
        request_type == Get(request, "type", "general")
        recipe_query == IF message = "" THEN Absent ELSE extract_recipe_query(message)
        found == IF recipe_query # Absent /\ request_type # "general"
                 THEN {Ok([agent |-> RecipeName, response |-> SomeText,
                           recipes |-> recipes, query |-> recipe_query,
                           status |-> "success"]) :
                            recipes \in SpoonacularResults \ {<<>>}}
                 ELSE {}
        body == found \cup {Ok(general_recipe_response)} \cup Faults
    IN  UNION {recipe_except(outcome) : outcome \in body}

(***************************************************************************)
(* backend/agents/diet_tracker.py                                          *)
(***************************************************************************)
TrackerName == "DietTracker"

\* a return of the tracker with the given status and payload key
tracker_response(status, payload) ==
    IF payload = Absent
    THEN [agent |-> TrackerName, response |-> SomeText, status |-> status]
    ELSE DictSet([agent |-> TrackerName, response |-> SomeText, status |-> status],
                 payload, SomeText)

\* _analyze_progress, _analyze_goals, _analyze_trends: 'no_data' when the
\* store holds nothing for the user, else 'success' with the payload
tracker_analysis(payload) ==
    {Ok(tracker_response("no_data", Absent)),
     Ok(tracker_response("success", payload))} \cup Faults

\* any(kw in message for kw in keywords)
any_in(keywords, message) == \E kw \in keywords : Contains(kw, message)

\* the except clause of DietTrackerAgent.process_request
tracker_except(outcome) ==
    IF outcome.raised
    THEN Returned([agent |-> TrackerName,
                   response |-> "I encountered an error while analyzing your diet data. Please try again.",
                   status |-> "error"], TRUE, outcome.exc)
    ELSE outcome

\* DietTrackerAgent.process_request(request, context)
tracker_process_request(request, context) ==
    LET message == lower(strip(Get(request, "message", "")))
        body ==
            IF message = ""
            THEN {Ok(tracker_response("success", "tracking_data"))} \cup Faults
            ELSE IF any_in({"track", "daily", "progress", "today"}, message)
            THEN tracker_analysis("daily_data")
            ELSE IF any_in({"week", "weekly", "7 days"}, message)
            THEN tracker_analysis("weekly_data")
            ELSE IF any_in({"month", "monthly", "30 days"}, message)
            THEN tracker_analysis("monthly_data")
            ELSE IF any_in({"goal", "target", "objective"}, message)
            THEN tracker_analysis("goal_data")
            ELSE IF any_in({"trend", "pattern", "habit"}, message)
            THEN tracker_analysis("trend_data")
            ELSE IF any_in({"log", "add", "record"}, message)
            THEN {Ok(tracker_response("info", Absent))}
            ELSE {Ok(DictSet(tracker_response("success", Absent),
                             "type", "general_tracking")),
                  Ok(tracker_response("success", Absent))} \cup Faults
    IN  {tracker_except(outcome) : outcome \in body}

\* self.agents[agent_name].process_request(request, context)
process_request(agent_name, request, context) ==
    CASE agent_name = "nutrition_calculator" -> nutrition_process_request(request, context)
      [] agent_name = "recipe_finder" -> recipe_process_request(request, context)
      [] agent_name = "diet_tracker" -> tracker_process_request(request, context)

(***************************************************************************)
(* backend/agents/base_agent.py: generate_response.  The text backend      *)
(* answers with a text, answers with nothing, or raises; the canned texts  *)
(* are the source's, abridged to their first line and without the emoji.   *)
(***************************************************************************)
BackendErrTexts ==
    {"429 Resource has been exhausted", "API key not valid", "Connection reset by peer"}

BackendOutcomes ==
    {[kind |-> "text", text |-> "  Here is a unified answer. "],
     [kind |-> "empty", text |-> ""]}
    \cup {[kind |-> "raises", text |-> exc] : exc \in BackendErrTexts}

\* _get_quota_exceeded_fallback(prompt, context)
get_quota_exceeded_fallback(prompt) ==
    LET prompt_lower == lower(prompt)
    IN  IF any_in({"nutrition", "food", "calories"}, prompt_lower)
        THEN "**API Quota Limit Reached**"
        ELSE IF any_in({"recipe", "meal"}, prompt_lower)
        THEN "**AI Service Temporarily Limited**"
        ELSE IF any_in({"track", "progress", "log"}, prompt_lower)
        THEN "**AI Analysis Temporarily Unavailable**"
        ELSE "**AI Service Quota Exceeded**"

\* error_kind with the two tests in the other order
error_kind_config_first(error_str) ==
    IF Contains("api key", lower(error_str)) \/ Contains("401", error_str)
       \/ Contains("403", error_str)
    THEN "config"
    ELSE IF Contains("429", error_str) \/ Contains("quota", lower(error_str))
            \/ Contains("rate limit", lower(error_str))
    THEN "quota"
    ELSE "other"

\* the branch of an except clause that str(e) selects: the test that both
\* generate_response and process_user_request make
error_kind(error_str) ==
    IF Contains("429", error_str) \/ Contains("quota", lower(error_str))
       \/ Contains("rate limit", lower(error_str))
    THEN "quota"
    ELSE IF Contains("api key", lower(error_str)) \/ Contains("401", error_str)
            \/ Contains("403", error_str)
    THEN "config"
    ELSE "other"

\* generate_response whose last except branch quotes the exception
generate_response_quoting(prompt, outcome) ==
    CASE outcome.kind = "text" -> Ok(strip(outcome.text))
      [] outcome.kind = "empty" ->
            Ok("I apologize, but I couldn't generate a response at this time. Please try again.")
      [] outcome.kind = "raises" ->
            Returned(
                CASE error_kind(outcome.text) = "quota" -> get_quota_exceeded_fallback(prompt)
                  [] error_kind(outcome.text) = "config" ->
                        "API configuration issue detected. Using offline mode. Please check your API keys in the .env file."
                  [] OTHER -> "I apologize, but I encountered an error: " \o outcome.text,
                TRUE, outcome.text)

\* generate_response(prompt, context) against a backend that does `outcome`:
\* the call returns a text whatever the backend does
generate_response(prompt, outcome) ==
    CASE outcome.kind = "text" -> Ok(strip(outcome.text))
      [] outcome.kind = "empty" ->
            Ok("I apologize, but I couldn't generate a response at this time. Please try again.")
      [] outcome.kind = "raises" ->
            Returned(
                CASE error_kind(outcome.text) = "quota" -> get_quota_exceeded_fallback(prompt)
                  [] error_kind(outcome.text) = "config" ->
                        "API configuration issue detected. Using offline mode. Please check your API keys in the .env file."
                  [] OTHER ->
                        "I apologize, but I encountered an error while processing your request. Please try again.",
                TRUE, outcome.text)

(***************************************************************************)
(* backend/agents/nutrition_calculator.py: quantities and nutrient values. *)
(* A number (a quantity, a nutrient value) is kept in hundredths: 28.35 is *)
(* 2835 and 100 is 10000; arithmetic is exact where Python's is binary     *)
(* floating point.                                                         *)
(***************************************************************************)
IsDigit(c) == c \in {"0", "1", "2", "3", "4", "5", "6", "7", "8", "9"}

DigitValue(c) ==
    CASE c = "0" -> 0 [] c = "1" -> 1 [] c = "2" -> 2 [] c = "3" -> 3
      [] c = "4" -> 4 [] c = "5" -> 5 [] c = "6" -> 6 [] c = "7" -> 7
      [] c = "8" -> 8 [] c = "9" -> 9

RECURSIVE int(_)
\* int(s) of a string of digits
int(s) ==
    IF s = "" THEN 0
    ELSE 10 * int(SubSeq(s, 1, Len(s) - 1)) + DigitValue(CharAt(s, Len(s)))

RECURSIVE DigitsEnd(_, _)
\* the position after the digits that start at position i of s
DigitsEnd(s, i) ==
    IF i <= Len(s) /\ IsDigit(CharAt(s, i)) THEN DigitsEnd(s, i + 1) ELSE i

RECURSIVE SpacesEnd(_, _)
\* the position after the white space that starts at position i of s
SpacesEnd(s, i) ==
    IF i <= Len(s) /\ IsSpace(CharAt(s, i)) THEN SpacesEnd(s, i + 1) ELSE i

\* number_patterns of _extract_quantity_from_message, in order: the text of
\* a pattern, and the texts that its unit group (?:...) starts with (none
\* for the pattern without a unit group)
number_patterns ==
    << [pattern |-> "(\\d+)\\s*(?:pieces?|items?|units?)",
        units |-> {"piece", "item", "unit"}],
       [pattern |-> "(\\d+)\\s*(?:cups?)", units |-> {"cup"}],
       [pattern |-> "(\\d+)\\s*(?:tablespoons?|tbsp)", units |-> {"tablespoon", "tbsp"}],
       [pattern |-> "(\\d+)\\s*(?:teaspoons?|tsp)", units |-> {"teaspoon", "tsp"}],
       [pattern |-> "(\\d+)\\s*(?:grams?|g)", units |-> {"gram", "g"}],
       [pattern |-> "(\\d+)\\s*(?:ounces?|oz)", units |-> {"ounce", "oz"}],
       [pattern |-> "(\\d+)\\s*(?:pounds?|lbs?)", units |-> {"pound", "lb"}],
       [pattern |-> "(\\d+)", units |-> {}] >>

\* the positions of s at which (\d+)\s*(?:units) matches
pattern_matches(p, s) ==
    {i \in 1..Len(s) :
        /\ IsDigit(CharAt(s, i))
        /\ \/ p.units = {}
           \/ \E unit \in p.units : At(unit, s, SpacesEnd(s, DigitsEnd(s, i)))}

\* int(re.search(pattern, s).group(1)) of the leftmost match
pattern_group(p, s) ==
    LET i == MinOf(pattern_matches(p, s))
    IN  int(SubSeq(s, i, DigitsEnd(s, i) - 1))

\* the return of the loop body for a pattern that matched with `quantity`
quantity_for_pattern(pattern, quantity, food_name) ==
    IF Contains("cup", pattern)
    THEN [quantity |-> quantity * 24000, unit |-> "g"]
    ELSE IF Contains("tablespoon", pattern) \/ Contains("tbsp", pattern)
    THEN [quantity |-> quantity * 1500, unit |-> "g"]
    ELSE IF Contains("teaspoon", pattern) \/ Contains("tsp", pattern)
    THEN [quantity |-> quantity * 500, unit |-> "g"]
    ELSE IF Contains("gram", pattern) \/ "g" = split(pattern)[Len(split(pattern))]
    THEN [quantity |-> quantity * 100, unit |-> "g"]
    ELSE IF Contains("ounce", pattern) \/ Contains("oz", pattern)
    THEN [quantity |-> quantity * 2835, unit |-> "g"]
    ELSE IF Contains("pound", pattern) \/ Contains("lb", pattern)
    THEN [quantity |-> quantity * 45360, unit |-> "g"]
    ELSE IF food_name = "egg"
    THEN [quantity |-> quantity * 50 * 100, unit |-> "g"]
    ELSE IF food_name \in {"banana", "apple", "orange"}
    THEN [quantity |-> quantity * 150 * 100, unit |-> "g"]
    ELSE [quantity |-> quantity * 100 * 100, unit |-> "g"]

RECURSIVE first_number_pattern(_, _, _)
\* `for pattern in number_patterns`, and the default after the loop
first_number_pattern(patterns, message_lower, food_name) ==
    IF patterns = <<>> THEN [quantity |-> 100 * 100, unit |-> "g"]
    ELSE IF pattern_matches(Head(patterns), message_lower) # {}
    THEN quantity_for_pattern(Head(patterns).pattern,
                              pattern_group(Head(patterns), message_lower), food_name)
    ELSE first_number_pattern(Tail(patterns), message_lower, food_name)

\* _extract_quantity_from_message(message, food_name)
extract_quantity_from_message(text, food_name) ==
    LET message_lower == lower(text)
    IN  IF Contains("two", message_lower) \/ Contains("2", text)
        THEN IF food_name = "egg" THEN [quantity |-> 100 * 100, unit |-> "g"]
             ELSE [quantity |-> 2 * 100, unit |-> "pieces"]
        ELSE IF Contains("one", message_lower) \/ Contains("1", text)
        THEN IF food_name = "egg" THEN [quantity |-> 50 * 100, unit |-> "g"]
             ELSE [quantity |-> 1 * 100, unit |-> "piece"]
        ELSE first_number_pattern(number_patterns, message_lower, food_name)

\* round(v * q / d): the nearest integer.  The source rounds a binary
\* floating-point product, which at a decimal tie lies just below or just
\* above it, so a tie gives either neighbour.  The product is formed in two
\* parts to stay within 32 bits.
mul_round_div(v, q, d) ==
    LET whole == v * (q \div d) + (v * (q % d)) \div d
        r == (v * (q % d)) % d
    IN  IF 2 * r < d THEN {whole}
        ELSE IF 2 * r > d THEN {whole + 1}
        ELSE {whole, whole + 1}

RECURSIVE nutrient_records(_, _)
\* the dicts that give each of the names one of its values
nutrient_records(names, values) ==
    IF names = <<>> THEN {EmptyDict}
    ELSE {(Head(names) :> v) @@ rest :
            v \in values[Head(names)],
            rest \in nutrient_records(Tail(names), values)}

\* the standard nutrient names, in the order of the source
StandardNutrients ==
    <<"calories", "protein", "carbs", "fat", "fiber", "sugar", "sodium">>

\* nutrient_mapping of _process_usda_data
nutrient_mapping ==
    << <<1008, "calories">>, <<1003, "protein">>, <<1005, "carbs">>,
       <<1004, "fat">>, <<1079, "fiber">>, <<2000, "sugar">>, <<1093, "sodium">> >>

\* the first food that the food data service holds for a query, with values
\* per 100 g; 1087 is a nutrient that the agent does not keep
UsdaFood(query) ==
    IF query = "egg"
    THEN [description |-> "Egg, whole, raw, fresh", fdcId |-> 171287,
          foodNutrients |-> << [nutrientId |-> 1008, value |-> 14300],
                               [nutrientId |-> 1003, value |-> 1256],
                               [nutrientId |-> 1087, value |-> 5600] >>]
    ELSE [description |-> query, fdcId |-> 173944,
          foodNutrients |-> << [nutrientId |-> 1008, value |-> 8900],
                               [nutrientId |-> 1003, value |-> 109] >>]

\* what the food data service can answer to a search: a 200 response with
\* foods, a 200 response without, another status, or no response at all
\* (the request raises)
UsdaOutcomes(query) ==
    {[kind |-> "response", status_code |-> 200, foods |-> <<UsdaFood(query)>>],
     [kind |-> "response", status_code |-> 200, foods |-> <<>>],
     [kind |-> "response", status_code |-> 500, foods |-> <<>>],
     [kind |-> "raises", status_code |-> 0, foods |-> <<>>]}

\* None, as the return of _search_usda_food
NoUsdaData == [none |-> TRUE, foods |-> <<>>]

\* _search_usda_food that returns the body of a response of any status
search_usda_food_any_status(outcome) ==
    IF outcome.kind = "response"
    THEN [none |-> FALSE, foods |-> outcome.foods]
    ELSE NoUsdaData

\* _search_usda_food(query), when the service does `outcome`
search_usda_food(outcome) ==
    IF outcome.kind = "response" /\ outcome.status_code = 200
    THEN [none |-> FALSE, foods |-> outcome.foods]
    ELSE NoUsdaData

\* the value that _process_usda_data keeps for a standard nutrient: the last
\* entry of foodNutrients with its id, adjusted and rounded to two places;
\* 0 when there is none
usda_nutrient(food_nutrients, nutrient_id, quantity, unit) ==
    LET entries == {i \in DOMAIN food_nutrients :
                        food_nutrients[i].nutrientId = nutrient_id}
    IN  IF entries = {} THEN {0}
        ELSE LET value == food_nutrients[CHOOSE i \in entries :
                                            \A j \in entries : j <= i].value
             IN  IF unit = "g" THEN mul_round_div(value, quantity, 100 * 100)
                 ELSE {value}

\* _process_usda_data(food_data, quantity, unit): the dicts it can return
process_usda_data(food, quantity, unit) ==
    {[food_name |-> food.description, quantity |-> quantity, unit |-> unit,
      fdc_id |-> food.fdcId] @@ nutrients :
        nutrients \in nutrient_records(
            StandardNutrients,
            [n \in Range(StandardNutrients) |->
                usda_nutrient(food.foodNutrients,
                              (CHOOSE m \in Range(nutrient_mapping) : m[2] = n)[1],
                              quantity, unit)])}

\* common_foods_nutrition of _ai_nutrition_estimation
common_foods_nutrition ==
    [egg |-> [calories |-> 7000, protein |-> 600, carbs |-> 60, fat |-> 500,
              fiber |-> 0, sugar |-> 60, sodium |-> 6500],
     banana |-> [calories |-> 8900, protein |-> 110, carbs |-> 2300, fat |-> 30,
                 fiber |-> 260, sugar |-> 1200, sodium |-> 100],
     apple |-> [calories |-> 5200, protein |-> 30, carbs |-> 1400, fat |-> 20,
                fiber |-> 240, sugar |-> 1000, sodium |-> 100],
     chicken |-> [calories |-> 16500, protein |-> 3100, carbs |-> 0, fat |-> 360,
                  fiber |-> 0, sugar |-> 0, sodium |-> 7400],
     rice |-> [calories |-> 13000, protein |-> 270, carbs |-> 2800, fat |-> 30,
               fiber |-> 40, sugar |-> 10, sodium |-> 100],
     bread |-> [calories |-> 26500, protein |-> 900, carbs |-> 4900, fat |-> 320,
                fiber |-> 270, sugar |-> 500, sodium |-> 49100],
     milk |-> [calories |-> 4200, protein |-> 340, carbs |-> 500, fat |-> 100,
               fiber |-> 0, sugar |-> 500, sodium |-> 4400]]

\* round(v * scale_factor, 1) of the table branch, with scale_factor as the
\* fraction quantity / per; the values of the table have one decimal place
scaled(v, quantity, per) == {10 * r : r \in mul_round_div(v \div 10, quantity, per)}

\* the table branch of _ai_nutrition_estimation that scales eggs as any food
table_estimation_per_100g(food_name, quantity, unit) ==
    LET base_nutrition == common_foods_nutrition[lower(food_name)]
        per == IF unit = "g" THEN 100 * 100 ELSE 100
    IN  {[food_name |-> food_name, quantity |-> quantity, unit |-> unit,
          source |-> "database"] @@ scaled_nutrition :
            scaled_nutrition \in nutrient_records(
                StandardNutrients,
                [k \in DOMAIN base_nutrition |->
                    scaled(base_nutrition[k], quantity, per)])}

\* the table branch of _ai_nutrition_estimation: the dicts it can return
table_estimation(food_name, quantity, unit) ==
    LET base_nutrition == common_foods_nutrition[lower(food_name)]
        per == IF lower(food_name) = "egg" /\ unit = "g" THEN 50 * 100
               ELSE IF unit = "g" THEN 100 * 100
               ELSE 100
    IN  {[food_name |-> food_name, quantity |-> quantity, unit |-> unit,
          source |-> "database"] @@ scaled_nutrition :
            scaled_nutrition \in nutrient_records(
                StandardNutrients,
                [k \in DOMAIN base_nutrition |->
                    scaled(base_nutrition[k], quantity, per)])}

\* the answers of the text backend to the estimation prompt: a JSON object
\* with the keys the prompt asks for, prose, braces that hold no JSON, and
\* the other outcomes of a generation call
EstimateOutcomes ==
    {[kind |-> "text", text |-> "Here you go: {\"calories\": 76} Enjoy."],
     [kind |-> "text", text |-> "About 76 kcal per 100 g."],
     [kind |-> "text", text |-> "{calories: about 76}"],
     [kind |-> "raises", text |-> "429 Resource has been exhausted"]}

\* re.search(r'\{.*\}', response, re.DOTALL).group(), or Absent for no match
json_match(response) ==
    LET opens == {i \in 1..Len(response) : CharAt(response, i) = "{"}
        closes == {i \in 1..Len(response) : CharAt(response, i) = "}"}
        starts == {i \in opens : \E j \in closes : j > i}
    IN  IF starts = {} THEN Absent
        ELSE SubSeq(response, MinOf(starts),
                    CHOOSE j \in closes : \A k \in closes : k <= j)

\* json.loads(text) for the texts above: the object, or raised
json_loads(text) ==
    IF text = "{\"calories\": 76}"
    THEN [raised |-> FALSE, value |-> [calories |-> 7600]]
    ELSE [raised |-> TRUE, value |-> EmptyDict]

\* _ai_nutrition_estimation(food_name, quantity, unit, context), when the
\* text backend does `outcome`: the dicts it can return
ai_nutrition_estimation(food_name, quantity, unit, outcome) ==
    IF lower(food_name) \in DOMAIN common_foods_nutrition
    THEN table_estimation(food_name, quantity, unit)
    ELSE LET response == generate_response("Estimate the nutritional content", outcome).response
             matched == json_match(response)
             default == [food_name |-> food_name, quantity |-> quantity,
                         unit |-> unit, calories |-> 10000, protein |-> 500,
                         carbs |-> 1500, fat |-> 300, fiber |-> 200,
                         sugar |-> 500, sodium |-> 5000, source |-> "default"]
         IN  IF matched # Absent /\ ~json_loads(matched).raised
             THEN {json_loads(matched).value
                   @@ [food_name |-> food_name, quantity |-> quantity,
                       unit |-> unit, source |-> "AI_estimation"]}
             ELSE {default}

(***************************************************************************)
(* backend/agents/base_agent.py: the per-user history and the rate         *)
(* limiter of an agent instance.  The timestamp of a turn is not kept.     *)
(***************************************************************************)
\* self.min_delay_between_calls, in seconds
min_delay_between_calls == 1

\* the number of turns _add_to_chat_history keeps for a user
history_cap == 50

\* _get_chat_history(user_id)
get_chat_history(histories, uid) == Get(histories, uid, <<>>)

\* list[-n:] for n > 0
LastN(list, n) ==
    IF Len(list) > n THEN SubSeq(list, Len(list) - n + 1, Len(list)) ELSE list

\* _add_to_chat_history that keeps the first turns: list[:50]
add_to_chat_history_first(histories, uid, prompt, response, metadata) ==
    LET appended == Append(get_chat_history(histories, uid),
                           [user_message |-> prompt, agent_response |-> response,
                            agent |-> NutritionName, metadata |-> metadata])
    IN  DictSet(histories, uid,
                IF Len(appended) > history_cap THEN SubSeq(appended, 1, history_cap)
                ELSE appended)

\* _add_to_chat_history(user_id, message, response, metadata): the value of
\* self.chat_histories after the call
add_to_chat_history(histories, uid, prompt, response, metadata) ==
    LET appended == Append(get_chat_history(histories, uid),
                           [user_message |-> prompt, agent_response |-> response,
                            agent |-> NutritionName, metadata |-> metadata])
    IN  DictSet(histories, uid,
                IF Len(appended) > history_cap THEN LastN(appended, history_cap)
                ELSE appended)

\* the rate limiter of generate_response at time t: the seconds (in ticks)
\* that the call sleeps before it calls the backend
limiter_delay(t, last) ==
    LET time_since_last_call == t - last
    IN  IF time_since_last_call < min_delay_between_calls * TicksPerSecond
        THEN min_delay_between_calls * TicksPerSecond - time_since_last_call
        ELSE 0

(***************************************************************************)
(* backend/agents/diet_tracker.py: the trend analysis.  The logs are the   *)
(* meals of the last 14 days (MealAsLog objects); a date is the number of  *)
(* its day and calories are whole numbers.  An average over a week is kept *)
(* as its numerator over 7.                                                *)
(***************************************************************************)
RECURSIVE meal_distribution(_, _)
\* the loop `for log in logs` that counts the entries of each meal type
meal_distribution(logs, meal_dist) ==
    IF logs = <<>> THEN meal_dist
    ELSE LET meal_type == IF Head(logs).meal_type = Absent THEN "snack"
                          ELSE Head(logs).meal_type
         IN  meal_distribution(Tail(logs),
                               DictSet(meal_dist, meal_type,
                                       Get(meal_dist, meal_type, 0) + 1))

RECURSIVE daily_calories_of(_, _)
\* the loop `for log in logs` that sums the calories of each date
daily_calories_of(logs, daily_calories) ==
    IF logs = <<>> THEN daily_calories
    ELSE daily_calories_of(Tail(logs),
            (Head(logs).date :> (Get(daily_calories, Head(logs).date, 0)
                                 + Head(logs).calories)) @@ daily_calories)

RECURSIVE sorted(_)
\* sorted(keys): the dates in ascending order
sorted(keys) ==
    IF keys = {} THEN <<>>
    ELSE LET least == CHOOSE d \in keys : \A e \in keys : d <= e
         IN  <<least>> \o sorted(keys \ {least})

RECURSIVE sum_over(_, _)
\* sum(daily_calories[d] for d in dates)
sum_over(daily_calories, dates) ==
    IF dates = <<>> THEN 0
    ELSE daily_calories[Head(dates)] + sum_over(daily_calories, Tail(dates))

RECURSIVE sort_by_date_reverse(_)
\* all_logs.sort(key=lambda x: x.date, reverse=True): latest date first,
\* logs of one date in their order
sort_by_date_reverse(logs) ==
    IF logs = <<>> THEN <<>>
    ELSE LET latest == CHOOSE i \in DOMAIN logs :
                            /\ \A j \in DOMAIN logs : logs[j].date <= logs[i].date
                            /\ \A j \in 1..(i - 1) : logs[j].date < logs[i].date
         IN  <<logs[latest]>>
             \o sort_by_date_reverse(SubSeq(logs, 1, latest - 1)
                                     \o SubSeq(logs, latest + 1, Len(logs)))

\* _get_nutrition_logs(user_id, days=14) when the store holds `stored`
\* meals of the period and no NutritionLog documents
get_nutrition_logs(stored) == sort_by_date_reverse(stored)

\* _identify_patterns(logs); week1_avg and week2_avg in sevenths
identify_patterns(logs) ==
    IF logs = <<>> THEN EmptyDict
    ELSE LET daily_calories == daily_calories_of(logs, <<>>)
             sorted_dates == sorted(DOMAIN daily_calories)
             two_weeks == Len(sorted_dates) >= 14
         IN  [meal_distribution |-> meal_distribution(logs, EmptyDict),
              week1_avg |-> IF two_weeks
                            THEN sum_over(daily_calories, SubSeq(sorted_dates, 1, 7))
                            ELSE 0,
              week2_avg |-> IF two_weeks
                            THEN sum_over(daily_calories, SubSeq(sorted_dates, 8, 14))
                            ELSE 0,
              total_days |-> Len(sorted_dates)]

\* f"{x:.0f}" of x = sevenths / 7: the nearest whole number (no ties, 7
\* being odd) and the sign the format prints
format_0f(sevenths) ==
    IF sevenths >= 0
    THEN [sign |-> "+", digits |-> (2 * sevenths + 7) \div 14]
    ELSE [sign |-> "-", digits |-> (2 * (-sevenths) + 7) \div 14]

\* the "Weekly Comparison" part of the response of _analyze_trends, or {}
weekly_comparison(patterns) ==
    IF Get(patterns, "week1_avg", 0) # 0 /\ Get(patterns, "week2_avg", 0) # 0
    THEN LET diff == patterns.week2_avg - patterns.week1_avg
         IN  [week1 |-> format_0f(patterns.week1_avg).digits,
              week2 |-> format_0f(patterns.week2_avg).digits,
              trend |-> IF diff > 0 THEN "up" ELSE "down",
              change |-> format_0f(diff)]
    ELSE EmptyDict

\* _analyze_trends(user_id, context) on the logs found, when the text
\* backend does `outcome` on the insights call; the response text is kept
\* as its parts
analyze_trends(logs, outcome) ==
    IF logs = <<>>
    THEN [agent |-> TrackerName, response |-> [no_data |-> TRUE],
          status |-> "no_data"]
    ELSE LET patterns == identify_patterns(logs)
         IN  [agent |-> TrackerName,
              response |-> [meal_patterns |-> patterns.meal_distribution,
                            weekly_comparison |-> weekly_comparison(patterns),
                            insights |-> generate_response(
                                "Analyze this nutrition data: Eating patterns",
                                outcome).response],
              trend_data |-> patterns,
              status |-> "success"]

(***************************************************************************)
(* backend/models/chat_session.py, backend/models/chat_history.py: the     *)
(* chat_sessions collection is a function from the ids of its documents to *)
(* the documents, the chat_messages collection a sequence of documents.    *)
(* A ChatSession object in a request is a copy of its document, and        *)
(* save() writes the whole object back under its id, inserting the         *)
(* document when the collection has none with that id.                     *)
(***************************************************************************)
NoSession ==
    [id |-> 0, user_id |-> Absent, title |-> "", message_count |-> 0,
     is_active |-> FALSE]

\* ChatSession(user_id=..., title=..., is_active=True), with the id that
\* the first save gives it
ChatSession(id, uid, title) ==
    [id |-> id, user_id |-> uid, title |-> title, message_count |-> 0,
     is_active |-> TRUE]

\* await ChatSession.get(session_id): the document, or None
session_get(collection, session_id) ==
    IF session_id \in DOMAIN collection THEN collection[session_id] ELSE NoSession

\* the documents that find_one(user_id == uid, is_active == True) can return
active_sessions(collection, uid) ==
    {collection[id] : id \in {i \in DOMAIN collection :
                                /\ collection[i].user_id = uid
                                /\ collection[i].is_active}}

\* find(user_id == uid, is_active == True, id != but).update({"$set":
\* {"is_active": False}}); create_new_session has no id to leave out
deactivate_others(collection, uid, but) ==
    [id \in DOMAIN collection |->
        IF /\ collection[id].user_id = uid
           /\ collection[id].is_active
           /\ id # but
        THEN [collection[id] EXCEPT !.is_active = FALSE]
        ELSE collection[id]]

\* await session.save()
session_save(collection, session) == (session.id :> session) @@ collection

\* await session.delete()
session_delete(collection, session) ==
    [id \in DOMAIN collection \ {session.id} |-> collection[id]]

\* the title that update_title_from_message(first_message) sets
title_from_message(first_message) ==
    LET title == strip(SubSeq(first_message, 1,
                              IF Len(first_message) < 50 THEN Len(first_message)
                              ELSE 50))
    IN  IF Len(first_message) > 50 THEN title \o "..." ELSE title

\* ChatMessage.save_chat_interaction(user_id, message, ..., session_id)
save_chat_interaction(collection, uid, text, session_id) ==
    Append(collection, [user_id |-> uid, session_id |-> session_id,
                        message |-> text])

(***************************************************************************)
(* backend/utils/security.py: sanitize_dict, on the context objects a      *)
(* caller can pass: None, a flat dict of strings, a str, or an object      *)
(* whose items() raises.                                                   *)
(***************************************************************************)
PyNone == [py |-> "None", fields |-> EmptyDict, text |-> ""]

PyDict(d) == [py |-> "dict", fields |-> d, text |-> ""]

PyText(text) == [py |-> "str", fields |-> EmptyDict, text |-> text]

PyRaising(exc) == [py |-> "raises", fields |-> EmptyDict, text |-> exc]

\* context or {}
or_empty_dict(context) ==
    IF context.py = "None" \/ (context.py = "str" /\ context.text = "")
       \/ (context.py = "dict" /\ DOMAIN context.fields = {})
    THEN PyDict(EmptyDict)
    ELSE context

\* sanitize_dict(data)
sanitize_dict(data) ==
    CASE data.py = "dict" ->
            Ok([clean_key \in {sanitize_input(key) : key \in DOMAIN data.fields} |->
                    LET key == CHOOSE k \in DOMAIN data.fields : sanitize_input(k) = clean_key
                    IN  sanitize_input(data.fields[key])])
      [] data.py = "str" -> Raised("'str' object has no attribute 'items'")
      [] data.py = "raises" -> Raised(data.text)

(***************************************************************************)
(* backend/utils/security.py: validate_user_profile, and                   *)
(* backend/agents/diet_tracker.py: the personalized goals.  Weights,       *)
(* heights and ages are whole numbers; the arithmetic is exact where       *)
(* Python's is binary floating point.                                      *)
(***************************************************************************)
valid_levels ==
    <<"sedentary", "lightly_active", "moderately_active", "very_active",
      "extra_active">>

\* InputValidator.validate_user_profile(profile_data): the list of errors,
\* for a profile_data that holds the keys in its domain
validate_user_profile(profile_data) ==
    LET has(key) == key \in DOMAIN profile_data
        check(failed, text) == IF failed THEN <<text>> ELSE <<>>
    IN  check(has("age") /\ (profile_data["age"] < 13 \/ profile_data["age"] > 120),
              "Age must be between 13 and 120")
        \o check(has("weight")
                 /\ (profile_data["weight"] < 20 \/ profile_data["weight"] > 500),
                 "Weight must be between 20 and 500 kg")
        \o check(has("height")
                 /\ (profile_data["height"] < 100 \/ profile_data["height"] > 250),
                 "Height must be between 100 and 250 cm")
        \o check(has("gender")
                 /\ profile_data["gender"] \notin {"male", "female", "other"},
                 "Gender must be 'male', 'female', or 'other'")
        \o check(has("activity_level")
                 /\ ~\E i \in DOMAIN valid_levels :
                        valid_levels[i] = profile_data["activity_level"],
                 "Activity level must be one of")

\* the activity multipliers of _calculate_personalized_goals, in thousandths
activity_multipliers ==
    [sedentary |-> 1200, lightly_active |-> 1375, moderately_active |-> 1550,
     very_active |-> 1725, extremely_active |-> 1900]

\* round(n / d) of Python 3, for d > 0: to the nearest, a tie to the even
round_half_even(n, d) ==
    LET q == n \div d
        r == n - d * q
    IN  IF 2 * r < d THEN q
        ELSE IF 2 * r > d THEN q + 1
        ELSE IF q % 2 = 0 THEN q ELSE q + 1

\* the Mifflin-St Jeor rate of _calculate_personalized_goals, in hundredths
bmr(user_profile) ==
    LET weight == user_profile.weight
        height == user_profile.height
        age == IF user_profile.age = 0 THEN 25 ELSE user_profile.age
    IN  IF user_profile.gender # Absent /\ lower(user_profile.gender) = "female"
        THEN 1000 * weight + 625 * (IF height = 0 THEN 165 ELSE height)
             - 500 * age - 16100
        ELSE 1000 * weight + 625 * (IF height = 0 THEN 175 ELSE height)
             - 500 * age + 500

\* the multiplier that _calculate_personalized_goals takes for a level
multiplier_of(activity_level) ==
    IF activity_level \in DOMAIN activity_multipliers
    THEN activity_multipliers[activity_level]
    ELSE 1375

\* any(goal in names for goal in health_goals)
any_goal(names, health_goals) ==
    \E i \in DOMAIN health_goals : health_goals[i] \in names

\* _calculate_personalized_goals(user_profile): None, or the rounded goals.
\* The calories are kept in hundred-thousandths until they are rounded.
calculate_personalized_goals(user_profile) ==
    IF user_profile.weight = 0 \/ user_profile.activity_level = Absent
    THEN PyNone
    ELSE
    LET weight == user_profile.weight
        health_goals == user_profile.health_goals
        maintenance_calories == bmr(user_profile)
                                * multiplier_of(user_profile.activity_level)
        target_calories ==
            IF any_goal({"weight_loss", "lose_weight", "fat_loss"}, health_goals)
            THEN maintenance_calories - 500 * 100000
            ELSE IF any_goal({"weight_gain", "muscle_gain", "bulk"}, health_goals)
            THEN maintenance_calories + 300 * 100000
            ELSE maintenance_calories
        protein_tenths ==
            IF any_goal({"muscle_gain", "bulk", "strength"}, health_goals)
            THEN weight * 22 ELSE weight * 16
    IN  [calories |-> round_half_even(target_calories, 100000),
         protein |-> round_half_even(protein_tenths, 10),
         carbs |-> round_half_even(3 * target_calories - protein_tenths * 160000,
                                   1600000),
         fat |-> round_half_even(target_calories, 3600000)]

(***************************************************************************)
(* backend/agents/coordinator.py: routing, collaboration, compilation.     *)
(***************************************************************************)
\* what the log of handler calls records of one call
Call(agent_name, role, request, context, outcome) ==
    [agent |-> agent_name, role |-> role, request |-> request,
     context |-> context, raised |-> outcome.raised, fault |-> outcome.fault]

\* _route_to_agent whose error response quotes the exception
route_to_agent_leaky(agent_name, request, context) ==
    { [response |-> IF outcome.raised
                    THEN [error |-> "Agent " \o agent_name \o " encountered an error: "
                                    \o outcome.exc,
                          status |-> "error",
                          agent |-> agent_name]
                    ELSE DictSet(outcome.response, "processed_by", agent_name),
       call |-> Call(agent_name, "primary", request, context, outcome)] :
        outcome \in process_request(agent_name, request, context) }

\* _route_to_agent(agent_name, request, context)
route_to_agent(agent_name, request, context) ==
    { [response |-> IF outcome.raised
                    THEN [error |-> "Agent " \o agent_name \o " encountered an error",
                          status |-> "error",
                          agent |-> agent_name]
                    ELSE DictSet(outcome.response, "processed_by", agent_name),
       call |-> Call(agent_name, "primary", request, context, outcome)] :
        outcome \in process_request(agent_name, request, context) }

\* _create_collaboration_request that hands the whole primary response to
\* the recipe handler
create_collaboration_request_whole(primary_response, target_agent) ==
    LET primary_agent == Get(primary_response, "processed_by", "unknown")
        default == [message |-> "Collaborate with information from " \o primary_agent,
                    type |-> "general",
                    collaboration_data |-> primary_response]
    IN  IF primary_agent = "nutrition_calculator" /\ target_agent = "recipe_finder"
        THEN [message |-> "Find recipes that match the analyzed nutritional requirements",
              type |-> "find_recipes",
              nutritional_criteria |-> primary_response]
        ELSE IF primary_agent = "recipe_finder" /\ target_agent = "nutrition_calculator"
        THEN LET recipes == Get(primary_response, "recipes", <<>>)
             IN  IF recipes # <<>>
                 THEN [message |-> "Analyze nutritional content of these recipes",
                       type |-> "calculate_recipe",
                       recipe |-> recipes[1]]
                 ELSE default
        ELSE IF target_agent = "diet_tracker"
        THEN [message |-> "Track this information for the user",
              type |-> "insights",
              data_to_track |-> primary_response]
        ELSE default

\* _create_collaboration_request(primary_response, target_agent, context)
create_collaboration_request(primary_response, target_agent) ==
    LET primary_agent == Get(primary_response, "processed_by", "unknown")
        default == [message |-> "Collaborate with information from " \o primary_agent,
                    type |-> "general",
                    collaboration_data |-> primary_response]
    IN  IF primary_agent = "nutrition_calculator" /\ target_agent = "recipe_finder"
        THEN [message |-> "Find recipes that match the analyzed nutritional requirements",
              type |-> "find_recipes",
              nutritional_criteria |-> Get(primary_response, "food_analysis", EmptyDict)]
        ELSE IF primary_agent = "recipe_finder" /\ target_agent = "nutrition_calculator"
        THEN LET recipes == Get(primary_response, "recipes", <<>>)
             IN  IF recipes # <<>>
                 THEN [message |-> "Analyze nutritional content of these recipes",
                       type |-> "calculate_recipe",
                       recipe |-> recipes[1]]
                 ELSE default
        ELSE IF target_agent = "diet_tracker"
        THEN [message |-> "Track this information for the user",
              type |-> "insights",
              data_to_track |-> primary_response]
        ELSE default

\* _collaborate_with_agent(agent_name, primary_response, context)
collaborate_with_agent(agent_name, primary_response, context) ==
    LET collab_request == create_collaboration_request(primary_response, agent_name)
    IN  { [response |-> IF outcome.raised
                        THEN [error |-> "Collaboration with " \o agent_name \o " failed"]
                        ELSE outcome.response,
           call |-> Call(agent_name, "collaborator", collab_request, context, outcome)] :
            outcome \in process_request(agent_name, collab_request, context) }

\* json.dumps(value, indent=2), as far as the texts it contains
json_dumps(value) == ToString(value)

\* _synthesize_multi_agent_response(primary_response, collaborations, context)
synthesize_multi_agent_response(primary_response, collaborations, outcome) ==
    LET synthesis_prompt ==
            "Synthesize these responses from different AI agents into a coherent, helpful answer: Primary Response: "
            \o json_dumps(primary_response) \o " Collaboration Responses: "
            \o json_dumps(collaborations)
            \o " Create a unified response that: 1. Addresses the user's original question 2. Integrates insights from all agents 3. Provides actionable recommendations 4. Maintains a helpful, conversational tone Keep it concise but comprehensive."
        synthesis == generate_response(synthesis_prompt, outcome)
    IN  IF synthesis.raised
        THEN "Multiple agents have provided information to help answer your question."
        ELSE synthesis.response

\* _compile_response(primary_response, collaborations, intent_analysis, context)
compile_response(primary_response, collaborations, intent_analysis, outcome) ==
    LET base == [coordinator |-> "AgentCoordinator",
                 primary_agent |-> intent_analysis.primary_agent,
                 primary_response |-> primary_response,
                 status |-> Get(primary_response, "status", "unknown"),
                 communication |->
                    [protocols_used |-> <<"HTTP", "JSON", "A2A">>,
                     agents_involved |-> <<intent_analysis.primary_agent>> \o Keys(collaborations),
                     routing_method |-> "intent_analysis",
                     collaboration_type |-> IF collaborations # <<>> THEN "A2A"
                                            ELSE "single_agent"]]
    IN  IF collaborations # <<>>
        THEN DictSet(DictSet(base, "collaborations", collaborations), "synthesis",
                     synthesize_multi_agent_response(primary_response, collaborations, outcome))
        ELSE base

\* the except clause of process_user_request
outer_except(error_str) ==
    CASE error_kind(error_str) = "quota" ->
            [error |-> "API quota limit reached. The AI service will be restored within 24 hours. You can still use food database lookups!",
             status |-> "quota_exceeded",
             coordinator |-> "AgentCoordinator",
             suggestion |-> "Try searching for specific foods using the nutrition database, or check your API quota at https://ai.google.dev/usage"]
      [] error_kind(error_str) = "config" ->
            [error |-> "API configuration issue. Please check your API keys in the .env file.",
             status |-> "config_error",
             coordinator |-> "AgentCoordinator"]
      [] OTHER ->
            [error |-> "I encountered an error while processing your request. Please try again.",
             status |-> "error",
             coordinator |-> "AgentCoordinator"]

\* context["user_id"] = user_id that keeps an entry the caller supplied
request_context_setdefault(sanitized, uid) ==
    IF "user_id" \in DOMAIN sanitized THEN sanitized
    ELSE DictSet(sanitized, "user_id", uid)

\* context = sanitize_dict(context or {}); context["user_id"] = user_id
request_context(sanitized, uid) == DictSet(sanitized, "user_id", uid)

(***************************************************************************)
(* The requests the model sends: messages of at most MaxWords words of     *)
(* Vocabulary, with each kind of context object.                           *)
(***************************************************************************)
Vocabulary ==
    {"Healthy", "recipe", "meal", "track", "nutrition", "calories", "oatmeal"}

RECURSIVE join(_)
\* " ".join(words)
join(words) ==
    IF words = <<>> THEN ""
    ELSE IF Len(words) = 1 THEN words[1]
    ELSE words[1] \o " " \o join(Tail(words))

Messages ==
    {join(words) : words \in UNION {[1..n -> Vocabulary] : n \in 0..MaxWords}}

\* the texts of the exceptions a context object raises from items()
ContextErrTexts ==
    {"429 Too Many Requests", "Quota exceeded for metric", "Rate Limit reached",
     "Invalid API Key: quota project not set", "401 Unauthorized", "403 Forbidden",
     "connection refused"}

Contexts ==
    {PyNone, PyDict([goal |-> "<b>lose</b> weight"]), PyText("vegan")}
    \cup {PyRaising(exc) : exc \in ContextErrTexts}

UserIds == {"u1"}

(***************************************************************************)
(* State: one call of AgentCoordinator.process_user_request, step by step. *)
(***************************************************************************)
VARIABLES
    pc,                \* where the call is: "start", "route", "collaborate", "done"
    user_id,           \* its user_id argument
    message,           \* its message argument, rebound to the sanitized text
    context,           \* its context argument, rebound to the sanitized dict
    intent_analysis,   \* the local of that name
    primary_response,  \* the local of that name
    collaborations,    \* the local of that name, an ordered dict
    collab_index,      \* position of the for loop in collaboration_needed
    final_response,    \* what the call returned
    calls,             \* the handler calls made, in order
    synthesis_calls,   \* generate_response calls made for the synthesis
    backend,           \* what the text backend did on the synthesis call
    synthesis_context  \* the context of the synthesis call, {} before it

coordinator_vars ==
    <<pc, user_id, message, context, intent_analysis, primary_response,
      collaborations, collab_index, final_response, calls, synthesis_calls,
      backend, synthesis_context>>

(***************************************************************************)
(* State: one agent instance (BaseAgent) and the generate_response calls   *)
(* made through it.  Time is counted in ticks of the clock time.time().    *)
(***************************************************************************)
VARIABLES
    chat_histories,    \* self.chat_histories: user id -> list of turns
    last_api_call,     \* self.last_api_call, in ticks
    now,               \* time.time(), in ticks
    coroutines,        \* the generate_response calls in flight, by caller
    generation_starts, \* the times at which model.generate_content was called
    last_call,         \* the generate_response call that returned last
    turn_log,          \* every turn stored so far, by user id, never cut
    call_count,        \* generate_response calls made so far
    peer_histories,    \* chat_histories of a second instance of the class
    peer_last_api_call, \* last_api_call of the second instance, in ticks
    peer_calls         \* generate_response calls made on the second instance

peer_vars == <<peer_histories, peer_last_api_call, peer_calls>>

agent_vars ==
    <<chat_histories, last_api_call, now, coroutines, generation_starts,
      last_call, turn_log, call_count, peer_vars>>

(***************************************************************************)
(* State: one call of a handler's process_request, made directly; the      *)
(* food analysis of the nutrition handler step by step.                    *)
(***************************************************************************)
VARIABLES
    handler,           \* the agent whose process_request is called
    handler_request,   \* its request argument
    phrase,            \* the quantity phrase the message was written with
    handler_pc,        \* "start", "search", "analyze", "insights", "done"
    food_item,         \* food_data of _analyze_food_item
    usda_outcome,      \* what the food data service did
    usda_data,         \* the local of that name
    nutrition_info,    \* the local of that name
    data_source,       \* the local of that name
    analysis,          \* what _analyze_food_item returned
    handler_response   \* what process_request did

handler_vars ==
    <<handler, handler_request, phrase, handler_pc, food_item, usda_outcome,
      usda_data, nutrition_info, data_source, analysis, handler_response>>

(***************************************************************************)
(* State: the meals stored for one user and one trend analysis of the      *)
(* tracking handler.                                                       *)
(***************************************************************************)
VARIABLES
    meals,             \* the user's Meal documents of the last 14 days
    trend_response,    \* what _analyze_trends returned, {} before the call
    stored_profile,    \* user.profile of the one user of the profile requests
    profile_response   \* what the last profile or goals request returned

profile_vars == <<stored_profile, profile_response>>

tracker_vars == <<meals, trend_response, profile_vars>>

(***************************************************************************)
(* State: the chat collections of the database and the requests to the     *)
(* chat and session endpoints of main.py that are under way on the event   *)
(* loop.  A request runs from one database await to the next.              *)
(***************************************************************************)
VARIABLES
    chat_sessions,     \* the chat_sessions collection
    chat_messages,     \* the chat_messages collection
    next_session_id,   \* the id of the next document inserted
    requests,          \* the requests under way, by slot of the event loop
    ops_started,       \* requests started so far
    actor              \* the user whose request took the last step

store_vars ==
    <<chat_sessions, chat_messages, next_session_id, requests, ops_started, actor>>

services_vars == <<tracker_vars, store_vars>>

other_vars == <<agent_vars, handler_vars, services_vars>>

vars == <<coordinator_vars, other_vars>>

NoBackend == [kind |-> "none", text |-> ""]

\* a generate_response call that has not happened
NoCall == [user_id |-> Absent, prompt |-> "", outcome |-> NoBackend,
           result |-> Ok(""), stored |-> FALSE, instance |-> 1]

\* no quantity phrase
NoPhrase == [kind |-> "none", n |-> 0, unit |-> ""]

\* UserProfile(): age, weight and height None, which every test of the goal
\* calculation (`not weight`, `height or 175`) treats as it treats 0
NoProfile ==
    [age |-> 0, gender |-> Absent, weight |-> 0, height |-> 0,
     activity_level |-> Absent, health_goals |-> <<>>]

\* a user who has set nothing in the profile and asked for nothing
ProfileIdle ==
    /\ stored_profile = NoProfile
    /\ profile_response = [kind |-> "none"]

\* no meals stored, no trend analysis made, no profile set
TrackerIdle ==
    /\ meals = <<>>
    /\ trend_response = EmptyDict
    /\ ProfileIdle

\* the slots of the event loop
Slots == {"r1", "r2"}

\* no request in a slot
NoRequest ==
    [op |-> "none", user |-> Absent, session_id |-> 0, text |-> "",
     pc |-> "idle", session |-> NoSession]

\* the chat collections are empty and no request is under way
StoreIdle ==
    /\ chat_sessions = <<>>
    /\ chat_messages = <<>>
    /\ next_session_id = 1
    /\ requests = [c \in Slots |-> NoRequest]
    /\ ops_started = 0
    /\ actor = Absent

\* the components that only some specifications drive, at rest
ServicesIdle == TrackerIdle /\ StoreIdle

\* no handler call in progress
HandlerIdle ==
    /\ handler = Absent
    /\ handler_request = EmptyDict
    /\ phrase = NoPhrase
    /\ handler_pc = "idle"
    /\ food_item = EmptyDict
    /\ usda_outcome = NoBackend
    /\ usda_data = NoUsdaData
    /\ nutrition_info = EmptyDict
    /\ data_source = Absent
    /\ analysis = EmptyDict
    /\ handler_response = Ok(EmptyDict)

\* BaseAgent.__init__, at a time when the clock is past the first interval
AgentConstructed ==
    /\ chat_histories = EmptyDict
    /\ last_api_call = 0
    /\ now = min_delay_between_calls * TicksPerSecond
    /\ generation_starts = <<>>
    /\ last_call = NoCall
    /\ turn_log = EmptyDict
    /\ call_count = 0
    /\ peer_histories = EmptyDict
    /\ peer_last_api_call = 0
    /\ peer_calls = 0

Init ==
    /\ pc = "start"
    /\ user_id \in UserIds
    /\ message \in Messages
    /\ context \in Contexts
    /\ intent_analysis = EmptyDict
    /\ primary_response = EmptyDict
    /\ collaborations = <<>>
    /\ collab_index = 1
    /\ final_response = EmptyDict
    /\ calls = <<>>
    /\ synthesis_calls = 0
    /\ backend = NoBackend
    /\ synthesis_context = EmptyDict
    /\ AgentConstructed
    /\ coroutines = EmptyDict
    /\ HandlerIdle
    /\ ServicesIdle

\* process_user_request up to its first await: sanitize the inputs and
\* analyse the intent; an exception goes to the except clause of the call
Start ==
    /\ UNCHANGED other_vars
    /\ pc = "start"
    /\ LET sanitized == sanitize_dict(or_empty_dict(context))
       IN  IF sanitized.raised
           THEN /\ final_response' = outer_except(sanitized.exc)
                /\ pc' = "done"
                /\ UNCHANGED <<message, context, intent_analysis>>
           ELSE /\ message' = sanitize_input(message)
                /\ context' = request_context(sanitized.response, user_id)
                /\ intent_analysis' = analyze_user_intent(message')
                /\ pc' = "route"
                /\ UNCHANGED final_response
    /\ UNCHANGED <<user_id, primary_response, collaborations, collab_index,
                   calls, synthesis_calls, backend, synthesis_context>>

\* primary_response = await self._route_to_agent(primary_agent, {...}, context)
RoutePrimary ==
    /\ UNCHANGED other_vars
    /\ pc = "route"
    /\ \E routed \in route_to_agent(intent_analysis.primary_agent,
                                    [message |-> message,
                                     type |-> Get(intent_analysis, "request_type", "general")],
                                    context) :
        /\ primary_response' = routed.response
        /\ calls' = Append(calls, routed.call)
    /\ collab_index' = 1
    /\ pc' = "collaborate"
    /\ UNCHANGED <<user_id, message, context, intent_analysis, collaborations,
                   final_response, synthesis_calls, backend, synthesis_context>>

\* Collaborate without the try of _collaborate_with_agent around the call:
\* a collaborator that raises ends the loop and leaves no entry
Collaborate_abort ==
    /\ UNCHANGED other_vars
    /\ pc = "collaborate"
    /\ collab_index <= Len(intent_analysis.collaboration_needed)
    /\ LET agent_name == intent_analysis.collaboration_needed[collab_index]
       IN  IF agent_name # intent_analysis.primary_agent
           THEN \E collab \in collaborate_with_agent(agent_name, primary_response, context) :
                    /\ collaborations' = IF collab.call.raised THEN collaborations
                                         ELSE OrderedSet(collaborations, agent_name,
                                                         collab.response)
                    /\ calls' = Append(calls, collab.call)
                    /\ collab_index' = IF collab.call.raised
                                       THEN Len(intent_analysis.collaboration_needed) + 1
                                       ELSE collab_index + 1
           ELSE /\ collab_index' = collab_index + 1
                /\ UNCHANGED <<collaborations, calls>>
    /\ UNCHANGED <<pc, user_id, message, context, intent_analysis, primary_response,
                   final_response, synthesis_calls, backend, synthesis_context>>

\* one iteration of `for agent_name in collaboration_needed`
Collaborate ==
    /\ UNCHANGED other_vars
    /\ pc = "collaborate"
    /\ collab_index <= Len(intent_analysis.collaboration_needed)
    /\ LET agent_name == intent_analysis.collaboration_needed[collab_index]
       IN  IF agent_name # intent_analysis.primary_agent
           THEN \E collab \in collaborate_with_agent(agent_name, primary_response, context) :
                    /\ collaborations' = OrderedSet(collaborations, agent_name, collab.response)
                    /\ calls' = Append(calls, collab.call)
           ELSE UNCHANGED <<collaborations, calls>>
    /\ collab_index' = collab_index + 1
    /\ UNCHANGED <<pc, user_id, message, context, intent_analysis, primary_response,
                   final_response, synthesis_calls, backend, synthesis_context>>

\* final_response = await self._compile_response(...); return final_response
Compile ==
    /\ UNCHANGED other_vars
    /\ pc = "collaborate"
    /\ collab_index > Len(intent_analysis.collaboration_needed)
    /\ IF collaborations # <<>>
       THEN \E outcome \in BackendOutcomes :
                /\ final_response' = compile_response(primary_response, collaborations,
                                                      intent_analysis, outcome)
                /\ backend' = outcome
                /\ synthesis_calls' = synthesis_calls + 1
                /\ synthesis_context' = context
       ELSE /\ final_response' = compile_response(primary_response, collaborations,
                                                  intent_analysis, NoBackend)
            /\ UNCHANGED <<backend, synthesis_calls, synthesis_context>>
    /\ pc' = "done"
    /\ UNCHANGED <<user_id, message, context, intent_analysis, primary_response,
                   collaborations, collab_index, calls>>

Next == Start \/ RoutePrimary \/ Collaborate \/ Compile

Spec == Init /\ [][Next]_vars

(***************************************************************************)
(* The coordinator at rest, for the specifications of one component.       *)
(***************************************************************************)
CoordinatorIdle ==
    /\ pc = "idle"
    /\ user_id = "u1"
    /\ message = ""
    /\ context = PyNone
    /\ intent_analysis = EmptyDict
    /\ primary_response = EmptyDict
    /\ collaborations = <<>>
    /\ collab_index = 1
    /\ final_response = EmptyDict
    /\ calls = <<>>
    /\ synthesis_calls = 0
    /\ backend = NoBackend
    /\ synthesis_context = EmptyDict

(***************************************************************************)
(* SpecAgent: generate_response calls made one after the other through one *)
(* agent instance, by two users and by callers without a user id.  Each    *)
(* user works through a script of prompts and sends a prompt again until   *)
(* it is answered.                                                         *)
(***************************************************************************)
AgentUsers == {"u1", "u2"}

PromptTopics ==
    <<"calories in oatmeal", "recipe for dinner", "track my progress", "hello">>

\* the prompt of the calls made on the second instance
PeerPrompt == "weekly report"

\* the prompt that caller u sends next
next_prompt(u) ==
    LET k == IF u = Absent THEN call_count + 1
             ELSE Len(Get(turn_log, u, <<>>)) + 1
    IN  PromptTopics[((k - 1) % Len(PromptTopics)) + 1] \o " " \o ToString(k)

\* the backend outcomes of SpecAgent: an answer, no answer, an exception
HistoryOutcomes ==
    {o \in BackendOutcomes : o.kind # "raises" \/ o.text = "Connection reset by peer"}

\* the turns stored so far, over all users
StoredTurns == Len(Get(turn_log, "u1", <<>>)) + Len(Get(turn_log, "u2", <<>>))

AgentInit ==
    CoordinatorIdle /\ AgentConstructed /\ coroutines = EmptyDict /\ HandlerIdle
    /\ ServicesIdle

\* one call of generate_response(prompt, context), start to return, made as
\* soon as the previous one returned
GenerateResponse ==
    /\ call_count < MaxCalls
    /\ \E u \in AgentUsers \cup {Absent}, outcome \in HistoryOutcomes :
        LET prompt == next_prompt(u)
            call_context == IF u = Absent THEN EmptyDict ELSE [user_id |-> u]
            start == now + limiter_delay(now, last_api_call)
            result == generate_response(prompt, outcome)
            stored == outcome.kind = "text" /\ u # Absent
        IN  /\ IF stored THEN Len(Get(turn_log, u, <<>>)) < MaxTurns
               ELSE call_count - StoredTurns < MaxUnstored
            /\ now' = start
            /\ last_api_call' = start
            /\ generation_starts' = Append(generation_starts, start)
            /\ chat_histories' =
                   IF stored
                   THEN add_to_chat_history(chat_histories, u, prompt,
                                            result.response, call_context)
                   ELSE chat_histories
            /\ turn_log' =
                   IF stored
                   THEN DictSet(turn_log, u,
                                Append(Get(turn_log, u, <<>>),
                                       [user_message |-> prompt,
                                        agent_response |-> result.response]))
                   ELSE turn_log
            /\ last_call' = [user_id |-> u, prompt |-> prompt, outcome |-> outcome,
                             result |-> result, stored |-> stored, instance |-> 1]
    /\ call_count' = call_count + 1
    /\ UNCHANGED <<coordinator_vars, handler_vars, services_vars, coroutines,
                   peer_vars>>

\* generate_response on a second instance whose chat_histories is an
\* attribute of the class, shared by every instance
GenerateResponsePeer_shared ==
    /\ peer_calls < MaxPeerCalls
    /\ \E u \in AgentUsers \cup {Absent}, outcome \in HistoryOutcomes :
        LET prompt == PeerPrompt \o " " \o ToString(peer_calls + 1)
            call_context == IF u = Absent THEN EmptyDict ELSE [user_id |-> u]
            start == now + limiter_delay(now, peer_last_api_call)
            result == generate_response(prompt, outcome)
            stored == outcome.kind = "text" /\ u # Absent
        IN  /\ now' = start
            /\ peer_last_api_call' = start
            /\ chat_histories' =
                   IF stored
                   THEN add_to_chat_history(chat_histories, u, prompt,
                                            result.response, call_context)
                   ELSE chat_histories
            /\ last_call' = [user_id |-> u, prompt |-> prompt, outcome |-> outcome,
                             result |-> result, stored |-> stored, instance |-> 2]
    /\ peer_calls' = peer_calls + 1
    /\ UNCHANGED <<coordinator_vars, handler_vars, services_vars, coroutines,
                   peer_histories, last_api_call, generation_starts, turn_log,
                   call_count>>

\* one call of generate_response on a second instance of the class (main.py
\* constructs its own DietTrackerAgent next to the coordinator's): the
\* history and the limiter it works on are that instance's own attributes
GenerateResponsePeer ==
    /\ peer_calls < MaxPeerCalls
    /\ \E u \in AgentUsers \cup {Absent}, outcome \in HistoryOutcomes :
        LET prompt == PeerPrompt \o " " \o ToString(peer_calls + 1)
            call_context == IF u = Absent THEN EmptyDict ELSE [user_id |-> u]
            start == now + limiter_delay(now, peer_last_api_call)
            result == generate_response(prompt, outcome)
            stored == outcome.kind = "text" /\ u # Absent
        IN  /\ now' = start
            /\ peer_last_api_call' = start
            /\ peer_histories' =
                   IF stored
                   THEN add_to_chat_history(peer_histories, u, prompt,
                                            result.response, call_context)
                   ELSE peer_histories
            /\ last_call' = [user_id |-> u, prompt |-> prompt, outcome |-> outcome,
                             result |-> result, stored |-> stored, instance |-> 2]
    /\ peer_calls' = peer_calls + 1
    /\ UNCHANGED <<coordinator_vars, handler_vars, services_vars, coroutines,
                   chat_histories, last_api_call, generation_starts, turn_log,
                   call_count>>

AgentNext == GenerateResponse

SpecAgent == AgentInit /\ [][AgentNext]_vars

(***************************************************************************)
(* Two instances of the agent class.  The first has already answered       *)
(* MaxSeedCalls calls of one user, or one less, each of them stored, so    *)
(* that its history for that user is about to reach the cap or has; the    *)
(* second instance is new.                                                 *)
(***************************************************************************)
SeedUser == "u1"

SeedOutcome == CHOOSE o \in HistoryOutcomes : o.kind = "text"

\* the prompt of the k-th call of the user, as next_prompt gives it
seed_prompt(k) ==
    PromptTopics[((k - 1) % Len(PromptTopics)) + 1] \o " " \o ToString(k)

\* the turn that the k-th call stores
seed_turn(k) ==
    [user_message |-> seed_prompt(k),
     agent_response |-> generate_response(seed_prompt(k), SeedOutcome).response,
     agent |-> NutritionName, metadata |-> [user_id |-> SeedUser]]

\* self.chat_histories after the first k calls: the last turns, up to the cap
seed_histories(k) ==
    DictSet(EmptyDict, SeedUser, LastN([i \in 1..k |-> seed_turn(i)], history_cap))

\* the first instance after k calls made back to back, the second as built
AfterCalls(k) ==
    /\ chat_histories = seed_histories(k)
    /\ last_api_call = k * min_delay_between_calls * TicksPerSecond
    /\ now = k * min_delay_between_calls * TicksPerSecond
    /\ generation_starts =
           [i \in 1..k |-> i * min_delay_between_calls * TicksPerSecond]
    /\ last_call = [user_id |-> SeedUser, prompt |-> seed_prompt(k),
                    outcome |-> SeedOutcome,
                    result |-> generate_response(seed_prompt(k), SeedOutcome),
                    stored |-> TRUE, instance |-> 1]
    /\ turn_log =
           DictSet(EmptyDict, SeedUser,
                   [i \in 1..k |->
                       [user_message |-> seed_prompt(i),
                        agent_response |->
                            generate_response(seed_prompt(i), SeedOutcome).response]])
    /\ call_count = k
    /\ peer_histories = EmptyDict
    /\ peer_last_api_call = 0
    /\ peer_calls = 0

InstancesInit ==
    /\ CoordinatorIdle
    /\ \E k \in {MaxSeedCalls - 1, MaxSeedCalls} : AfterCalls(k)
    /\ coroutines = EmptyDict
    /\ HandlerIdle
    /\ ServicesIdle

InstancesNext == GenerateResponse \/ GenerateResponsePeer

SpecInstances == InstancesInit /\ [][InstancesNext]_vars

(***************************************************************************)
(* SpecLimiter: generate_response calls of concurrent requests through one *)
(* agent instance, on one event loop.  A call runs without interruption    *)
(* up to `await asyncio.sleep(delay)` and from there to its return; the    *)
(* backend call is synchronous and keeps the loop for its latency.         *)
(***************************************************************************)
\* the requests in progress: one of user u1, one without a user id
Callers == {"r1", "r2"}

caller_user(c) == IF c = "r1" THEN "u1" ELSE Absent

\* the prompt of the next call of request c
caller_prompt(c) ==
    PromptTopics[(((IF c = "r1" THEN 0 ELSE MaxRequestCalls) + coroutines[c].calls_made)
                  % Len(PromptTopics)) + 1]

AgentBackendOutcomes ==
    BackendOutcomes
    \cup {[kind |-> "raises", text |-> "403 Quota exceeded for this API key"]}

LimiterInit ==
    /\ CoordinatorIdle
    /\ AgentConstructed
    /\ coroutines = [c \in Callers |-> [pc |-> "ready", wake |-> 0, calls_made |-> 0]]
    /\ HandlerIdle
    /\ ServicesIdle

\* generate_response from `self.last_api_call = time.time()` to its return
BackendCall(c) ==
    \E outcome \in AgentBackendOutcomes, latency \in 0..MaxLatency :
        LET u == caller_user(c)
            prompt == caller_prompt(c)
            call_context == IF u = Absent THEN EmptyDict ELSE [user_id |-> u]
            result == generate_response(prompt, outcome)
            stored == outcome.kind = "text" /\ u # Absent
        IN  /\ now + latency <= MaxTime
            /\ last_api_call' = now
            /\ generation_starts' = Append(generation_starts, now)
            /\ now' = now + latency
            /\ chat_histories' =
                   IF stored
                   THEN add_to_chat_history(chat_histories, u, prompt,
                                            result.response, call_context)
                   ELSE chat_histories
            /\ turn_log' =
                   IF stored
                   THEN DictSet(turn_log, u,
                                Append(Get(turn_log, u, <<>>),
                                       [user_message |-> prompt,
                                        agent_response |-> result.response]))
                   ELSE turn_log
            /\ last_call' = [user_id |-> u, prompt |-> prompt, outcome |-> outcome,
                             result |-> result, stored |-> stored, instance |-> 1]
            /\ call_count' = call_count + 1
            /\ coroutines' = [coroutines EXCEPT ![c].pc = "ready",
                                                ![c].calls_made = @ + 1]

\* request c calls generate_response: it sleeps if the last call was less
\* than the minimum delay ago, and calls the backend at once if not
EnterGenerate(c) ==
    /\ coroutines[c].pc = "ready"
    /\ coroutines[c].calls_made < MaxRequestCalls
    /\ LET delay == limiter_delay(now, last_api_call)
       IN  IF delay > 0
           THEN /\ coroutines' = [coroutines EXCEPT ![c].pc = "sleeping",
                                                    ![c].wake = now + delay]
                /\ UNCHANGED <<chat_histories, last_api_call, now, generation_starts,
                               last_call, turn_log, call_count>>
           ELSE BackendCall(c)
    /\ UNCHANGED <<coordinator_vars, handler_vars, services_vars, peer_vars>>

\* asyncio.sleep(delay) of request c is over
WakeGenerate(c) ==
    /\ coroutines[c].pc = "sleeping"
    /\ now >= coroutines[c].wake
    /\ BackendCall(c)
    /\ UNCHANGED <<coordinator_vars, handler_vars, services_vars, peer_vars>>

\* time passes
Tick ==
    /\ now < MaxTime
    /\ now' = now + 1
    /\ UNCHANGED <<coordinator_vars, handler_vars, services_vars, chat_histories,
                   last_api_call, coroutines, generation_starts, last_call,
                   turn_log, call_count, peer_vars>>

LimiterNext ==
    \/ \E c \in Callers : EnterGenerate(c)
    \/ \E c \in Callers : WakeGenerate(c)
    \/ Tick

SpecLimiter == LimiterInit /\ [][LimiterNext]_vars

(***************************************************************************)
(* SpecHandlers: process_request of one handler, called directly with a    *)
(* request that has a message or lacks one.  The messages of the nutrition *)
(* handler ask for the analysis of a food, with or without a quantity.     *)
(***************************************************************************)
UnitWords == {"cups", "tablespoons", "teaspoons", "grams", "ounces", "pounds"}

Numerals == 1..MaxNumeral \cup {200}

QuantityPhrases ==
    {NoPhrase}
    \cup {[kind |-> "spelled", n |-> n, unit |-> ""] : n \in {1, 2}}
    \cup {[kind |-> "numeral", n |-> n, unit |-> ""] : n \in Numerals}
    \cup {[kind |-> "numeral_unit", n |-> n, unit |-> unit] :
                n \in Numerals, unit \in UnitWords}

\* the text of a quantity phrase
phrase_text(p) ==
    CASE p.kind = "none" -> ""
      [] p.kind = "spelled" -> (IF p.n = 1 THEN "one" ELSE "two") \o " "
      [] p.kind = "numeral" -> ToString(p.n) \o " "
      [] p.kind = "numeral_unit" -> ToString(p.n) \o " " \o p.unit \o " "

FoodWords == {"eggs", "banana", "chicken", "tofu"}

\* the requests made to a handler: a general request with a message, a
\* request without 'message', and for the nutrition handler an analyze_food
\* request with food_data
HandlerRequests(agent_name) ==
    {[request |-> [type |-> "general"], phrase |-> NoPhrase]}
    \cup (IF agent_name = "nutrition_calculator"
          THEN {[request |-> [message |-> "analyze " \o phrase_text(p) \o food],
                 phrase |-> p] : p \in QuantityPhrases, food \in FoodWords}
               \cup {[request |-> [message |-> "analyze", type |-> "analyze_food",
                                   food_data |-> [name |-> "banana",
                                                  quantity |-> q * 100, unit |-> unit]],
                      phrase |-> NoPhrase] : q \in {2, 4}, unit \in {"g", "pieces"}}
          ELSE {[request |-> [message |-> "recipe to track my progress"],
                 phrase |-> NoPhrase]})

HandlerContext == [user_id |-> "u1"]

HandlersInit ==
    /\ CoordinatorIdle
    /\ AgentConstructed
    /\ coroutines = EmptyDict
    /\ ServicesIdle
    /\ handler \in Agents
    /\ \E r \in HandlerRequests(handler) :
            /\ handler_request = r.request
            /\ phrase = r.phrase
    /\ handler_pc = "start"
    /\ food_item = EmptyDict
    /\ usda_outcome = NoBackend
    /\ usda_data = NoUsdaData
    /\ nutrition_info = EmptyDict
    /\ data_source = Absent
    /\ analysis = EmptyDict
    /\ handler_response = Ok(EmptyDict)

\* the request is one that NutritionCalculatorAgent.process_request answers
\* with a food analysis: food_data of that analysis, or {}
analysis_food_data(request) ==
    IF ~validate_request(request).valid THEN EmptyDict
    ELSE IF Get(request, "type", "general") = "analyze_food"
    THEN IF Get(Get(request, "food_data", EmptyDict), "name", "") = "" THEN EmptyDict
         ELSE request.food_data
    ELSE IF Get(request, "type", "general")
                \in {"search_food", "calculate_recipe", "daily_analysis"}
    THEN EmptyDict
    ELSE LET text == sanitize_input(request.message)
             detected_food == extract_food_from_message(text)
             found == extract_quantity_from_message(text, detected_food)
         IN  IF any_in({"analyze", "nutrition", "calories", "nutrients", "calculate"},
                       lower(text))
                /\ detected_food # Absent
             THEN [name |-> detected_food, quantity |-> found.quantity,
                   unit |-> found.unit]
             ELSE EmptyDict

\* process_request up to the first await of a food analysis, or to its
\* return when the request is answered otherwise
Dispatch ==
    /\ handler_pc = "start"
    /\ IF handler = "nutrition_calculator" /\ analysis_food_data(handler_request) # EmptyDict
       THEN /\ food_item' = analysis_food_data(handler_request)
            /\ handler_pc' = "search"
            /\ UNCHANGED handler_response
       ELSE /\ handler_response' \in process_request(handler, handler_request,
                                                     HandlerContext)
            /\ handler_pc' = "done"
            /\ UNCHANGED food_item
    /\ UNCHANGED <<coordinator_vars, agent_vars, services_vars, handler, handler_request, phrase,
                   usda_outcome, usda_data, nutrition_info, data_source, analysis>>

\* usda_data = await self._search_usda_food(food_name)
SearchUsda ==
    /\ handler_pc = "search"
    /\ usda_outcome' \in UsdaOutcomes(food_item.name)
    /\ usda_data' = search_usda_food(usda_outcome')
    /\ handler_pc' = "analyze"
    /\ UNCHANGED <<coordinator_vars, agent_vars, services_vars, handler, handler_request, phrase,
                   food_item, nutrition_info, data_source, analysis, handler_response>>

\* the branch on usda_data of _analyze_food_item
Analyze ==
    /\ handler_pc = "analyze"
    /\ IF ~usda_data.none /\ usda_data.foods # <<>>
       THEN /\ nutrition_info' \in process_usda_data(usda_data.foods[1],
                                                     Get(food_item, "quantity", 100 * 100),
                                                     Get(food_item, "unit", "g"))
            /\ data_source' = "USDA"
       ELSE /\ \E outcome \in EstimateOutcomes :
                   nutrition_info' \in ai_nutrition_estimation(
                                         food_item.name,
                                         Get(food_item, "quantity", 100 * 100),
                                         Get(food_item, "unit", "g"), outcome)
            /\ data_source' = "AI_Estimation"
    /\ handler_pc' = "insights"
    /\ UNCHANGED <<coordinator_vars, agent_vars, services_vars, handler, handler_request, phrase,
                   food_item, usda_outcome, usda_data, analysis, handler_response>>

\* the insights and the return of _analyze_food_item, and the return of
\* process_request
Respond ==
    /\ handler_pc = "insights"
    /\ analysis' = [agent |-> NutritionName, food_analysis |-> nutrition_info,
                    ai_insights |-> SomeText, data_source |-> data_source,
                    status |-> "success"]
    /\ handler_response' =
           IF Get(handler_request, "type", "general") = "analyze_food"
           THEN Ok(analysis')
           ELSE Ok([agent |-> NutritionName, response |-> SomeText,
                    food_analysis |-> nutrition_info, type |-> "food_analysis",
                    status |-> "success"])
    /\ handler_pc' = "done"
    /\ UNCHANGED <<coordinator_vars, agent_vars, services_vars, handler, handler_request, phrase,
                   food_item, usda_outcome, usda_data, nutrition_info, data_source>>

HandlersNext == Dispatch \/ SearchUsda \/ Analyze \/ Respond

SpecHandlers == HandlersInit /\ [][HandlersNext]_vars

(***************************************************************************)
(* SpecIntent: process_user_request on messages that name request types:   *)
(* at most MaxTypeWords words, one keyword of each row of type_keywords    *)
(* among them, without a context or with one that names a user.           *)
(***************************************************************************)
TypeVocabulary ==
    {"Analyze", "lookup", "recipe", "log", "today", "advice", "oatmeal"}

TypeMessages ==
    {join(words) : words \in UNION {[1..n -> TypeVocabulary] : n \in 0..MaxTypeWords}}

\* no context, and a context that carries a user_id entry of its own
IntentContexts == {PyNone, PyDict([user_id |-> "u2", goal |-> "lose weight"])}

IntentInit ==
    /\ pc = "start"
    /\ user_id \in UserIds
    /\ message \in TypeMessages
    /\ context \in IntentContexts
    /\ intent_analysis = EmptyDict
    /\ primary_response = EmptyDict
    /\ collaborations = <<>>
    /\ collab_index = 1
    /\ final_response = EmptyDict
    /\ calls = <<>>
    /\ synthesis_calls = 0
    /\ backend = NoBackend
    /\ synthesis_context = EmptyDict
    /\ AgentConstructed
    /\ coroutines = EmptyDict
    /\ HandlerIdle
    /\ ServicesIdle

SpecIntent == IntentInit /\ [][Next]_vars

(***************************************************************************)
(* SpecTrends: one trend analysis of the tracking handler over the meals   *)
(* of up to MaxDays days: one meal a day, whose calories follow one of the *)
(* shapes below, and possibly a second meal, without a meal type, on the   *)
(* first day.                                                              *)
(***************************************************************************)
MealShapes == {"flat", "rising", "falling", "nothing_at_first"}

\* the calories of the meal of a day
shape_calories(shape, day) ==
    CASE shape = "flat" -> 2000
      [] shape = "rising" -> 1800 + 45 * day
      [] shape = "falling" -> 2600 - 45 * day
      [] shape = "nothing_at_first" -> IF day <= 7 THEN 0 ELSE 2000

MealStores ==
    LET one_a_day(shape, n) ==
            [day \in 1..n |->
                [date |-> day, calories |-> shape_calories(shape, day),
                 meal_type |-> IF day % 2 = 1 THEN "breakfast" ELSE "dinner"]]
    IN  {one_a_day(shape, n) : shape \in MealShapes, n \in 0..MaxDays}
        \cup {Append(one_a_day(shape, n),
                     [date |-> 1, calories |-> 300, meal_type |-> Absent]) :
                shape \in MealShapes, n \in 1..MaxDays}

TrendsInit ==
    /\ CoordinatorIdle
    /\ AgentConstructed
    /\ coroutines = EmptyDict
    /\ HandlerIdle
    /\ StoreIdle
    /\ meals \in MealStores
    /\ trend_response = EmptyDict
    /\ ProfileIdle

\* DietTrackerAgent._analyze_trends(user_id, context)
AnalyzeTrends ==
    /\ trend_response = EmptyDict
    /\ \E outcome \in HistoryOutcomes :
            trend_response' = analyze_trends(get_nutrition_logs(meals), outcome)
    /\ UNCHANGED <<coordinator_vars, agent_vars, handler_vars, store_vars, meals,
                   profile_vars>>

TrendsNext == AnalyzeTrends

SpecTrends == TrendsInit /\ [][TrendsNext]_vars

(***************************************************************************)
(* SpecSessions: requests of two users to POST /chat, POST /chat/sessions, *)
(* PUT /chat/sessions/{id}/activate, DELETE /chat/sessions/{id} and        *)
(* DELETE /chat/history, at most two under way at a time.                  *)
(***************************************************************************)
ChatUsers == {"u1", "u2"}

\* the "message" of a chat request: none, and a short one
ChatTexts == {"", "track my progress"}

\* a request as it arrives
NewRequests ==
    {[op |-> "chat", user |-> u, session_id |-> sid, text |-> text,
      pc |-> "start", session |-> NoSession] :
        u \in ChatUsers, sid \in 0..MaxSessions, text \in ChatTexts}
    \cup {[op |-> op, user |-> u, session_id |-> sid, text |-> "",
           pc |-> "start", session |-> NoSession] :
            op \in {"activate", "delete"}, u \in ChatUsers, sid \in 1..MaxSessions}
    \cup {[op |-> op, user |-> u, session_id |-> 0, text |-> "",
           pc |-> "start", session |-> NoSession] :
            op \in {"create", "clear"}, u \in ChatUsers}

\* the request may still insert a session document
MayCreate(r) ==
    \/ r.op = "create"
    \/ r.op = "chat" /\ r.session_id = 0
                     /\ r.pc \in {"start", "create_deactivate", "create_save"}

SessionsInit ==
    /\ CoordinatorIdle
    /\ AgentConstructed
    /\ coroutines = EmptyDict
    /\ HandlerIdle
    /\ TrackerIdle
    /\ StoreIdle

\* what every step of a request leaves alone
StoreFrame(c) ==
    /\ actor' = requests[c].user
    /\ UNCHANGED <<coordinator_vars, agent_vars, handler_vars, tracker_vars>>

\* the request of slot c moves on to pc, holding session
Goto(c, pc_, session) ==
    requests' = [requests EXCEPT ![c] = [@ EXCEPT !.pc = pc_, !.session = session]]

\* the request of slot c returns or raises
Return(c) == requests' = [requests EXCEPT ![c] = NoRequest]

\* a request arrives
Arrive(c) ==
    /\ requests[c] = NoRequest
    /\ ops_started < MaxOps
    /\ \E r \in NewRequests :
            /\ MayCreate(r) =>
                    next_session_id
                    + Cardinality({d \in Slots : MayCreate(requests[d])}) <= MaxSessions
            /\ requests' = [requests EXCEPT ![c] = r]
            /\ actor' = r.user
    /\ ops_started' = ops_started + 1
    /\ UNCHANGED <<chat_sessions, chat_messages, next_session_id>>
    /\ UNCHANGED <<coordinator_vars, agent_vars, handler_vars, tracker_vars>>

\* chat_with_agents up to the first update: get the active session or the
\* session named by session_id
ChatGetSession(c) ==
    LET r == requests[c]
    IN  /\ r.op = "chat" /\ r.pc = "start"
        /\ IF r.session_id = 0
           THEN IF active_sessions(chat_sessions, r.user) # {}
                THEN \E found \in active_sessions(chat_sessions, r.user) :
                        Goto(c, "respond", found)
                ELSE Goto(c, "create_deactivate", NoSession)
           ELSE LET found == session_get(chat_sessions, r.session_id)
                IN  IF found = NoSession THEN Return(c)
                    ELSE Goto(c, "set_active_update", found)
        /\ UNCHANGED <<chat_sessions, chat_messages, next_session_id, ops_started>>
        /\ StoreFrame(c)

\* create_chat_session: title and the call of create_new_session
CreateStart(c) ==
    LET r == requests[c]
    IN  /\ r.op = "create" /\ r.pc = "start"
        /\ Goto(c, "create_deactivate", NoSession)
        /\ UNCHANGED <<chat_sessions, chat_messages, next_session_id, ops_started>>
        /\ StoreFrame(c)

\* create_new_session: deactivate the active sessions of the user
CreateDeactivate(c) ==
    LET r == requests[c]
    IN  /\ r.pc = "create_deactivate"
        /\ chat_sessions' = deactivate_others(chat_sessions, r.user, 0)
        /\ Goto(c, "create_save", NoSession)
        /\ UNCHANGED <<chat_messages, next_session_id, ops_started>>
        /\ StoreFrame(c)

\* create_new_session: save the new session
CreateSave(c) ==
    LET r == requests[c]
        session == ChatSession(next_session_id, r.user, "New Chat")
    IN  /\ r.pc = "create_save"
        /\ chat_sessions' = session_save(chat_sessions, session)
        /\ next_session_id' = next_session_id + 1
        /\ IF r.op = "chat" THEN Goto(c, "respond", session) ELSE Return(c)
        /\ UNCHANGED <<chat_messages, ops_started>>
        /\ StoreFrame(c)

\* activate_session and delete_session: get the session and verify that it
\* belongs to the user
OwnedGetSession(c) ==
    LET r == requests[c]
        found == session_get(chat_sessions, r.session_id)
    IN  /\ r.op \in {"activate", "delete"} /\ r.pc = "start"
        /\ IF found = NoSession \/ found.user_id # r.user THEN Return(c)
           ELSE Goto(c, IF r.op = "activate" THEN "set_active_update"
                        ELSE "delete_messages", found)
        /\ UNCHANGED <<chat_sessions, chat_messages, next_session_id, ops_started>>
        /\ StoreFrame(c)

\* set_active: deactivate all other sessions of the session's user
SetActiveUpdate(c) ==
    LET r == requests[c]
    IN  /\ r.pc = "set_active_update"
        /\ chat_sessions' = deactivate_others(chat_sessions, r.session.user_id,
                                              r.session.id)
        /\ Goto(c, "set_active_save", r.session)
        /\ UNCHANGED <<chat_messages, next_session_id, ops_started>>
        /\ StoreFrame(c)

\* set_active: self.is_active = True; await self.save()
SetActiveSave(c) ==
    LET r == requests[c]
        session == [r.session EXCEPT !.is_active = TRUE]
    IN  /\ r.pc = "set_active_save"
        /\ chat_sessions' = session_save(chat_sessions, session)
        /\ IF r.op = "chat" THEN Goto(c, "respond", session) ELSE Return(c)
        /\ UNCHANGED <<chat_messages, next_session_id, ops_started>>
        /\ StoreFrame(c)

\* chat_with_agents: the response of the coordinator, and the interaction
\* saved when there is a message
ChatRespond(c) ==
    LET r == requests[c]
    IN  /\ r.pc = "respond"
        /\ IF r.text # ""
           THEN /\ chat_messages' = save_chat_interaction(chat_messages, r.user,
                                                          r.text, r.session.id)
                /\ Goto(c, "increment", r.session)
           ELSE /\ Return(c)
                /\ UNCHANGED chat_messages
        /\ UNCHANGED <<chat_sessions, next_session_id, ops_started>>
        /\ StoreFrame(c)

\* increment_message_count
IncrementMessageCount(c) ==
    LET r == requests[c]
        session == [r.session EXCEPT !.message_count = @ + 1]
    IN  /\ r.pc = "increment"
        /\ chat_sessions' = session_save(chat_sessions, session)
        /\ IF session.message_count = 1 /\ session.title = "New Chat"
           THEN Goto(c, "title", session)
           ELSE Return(c)
        /\ UNCHANGED <<chat_messages, next_session_id, ops_started>>
        /\ StoreFrame(c)

\* update_title_from_message
UpdateTitle(c) ==
    LET r == requests[c]
        session == [r.session EXCEPT !.title = title_from_message(r.text)]
    IN  /\ r.pc = "title"
        /\ chat_sessions' = session_save(chat_sessions, session)
        /\ Return(c)
        /\ UNCHANGED <<chat_messages, next_session_id, ops_started>>
        /\ StoreFrame(c)

\* delete_session: delete all messages of the session
DeleteMessages(c) ==
    LET r == requests[c]
    IN  /\ r.pc = "delete_messages"
        /\ chat_messages' = SelectSeq(chat_messages,
                                      LAMBDA m : m.session_id # r.session_id)
        /\ Goto(c, "delete_session", r.session)
        /\ UNCHANGED <<chat_sessions, next_session_id, ops_started>>
        /\ StoreFrame(c)

\* delete_session: delete the session
DeleteSession(c) ==
    LET r == requests[c]
    IN  /\ r.pc = "delete_session"
        /\ chat_sessions' = session_delete(chat_sessions, r.session)
        /\ Return(c)
        /\ UNCHANGED <<chat_messages, next_session_id, ops_started>>
        /\ StoreFrame(c)

\* clear_chat_history
ClearChatHistory(c) ==
    LET r == requests[c]
    IN  /\ r.op = "clear" /\ r.pc = "start"
        /\ chat_messages' = SelectSeq(chat_messages, LAMBDA m : m.user_id # r.user)
        /\ Return(c)
        /\ UNCHANGED <<chat_sessions, next_session_id, ops_started>>
        /\ StoreFrame(c)

SessionsNext ==
    \E c \in Slots :
        \/ Arrive(c)
        \/ ChatGetSession(c)
        \/ CreateStart(c)
        \/ CreateDeactivate(c)
        \/ CreateSave(c)
        \/ OwnedGetSession(c)
        \/ SetActiveUpdate(c)
        \/ SetActiveSave(c)
        \/ ChatRespond(c)
        \/ IncrementMessageCount(c)
        \/ UpdateTitle(c)
        \/ DeleteMessages(c)
        \/ DeleteSession(c)
        \/ ClearChatHistory(c)

SpecSessions == SessionsInit /\ [][SessionsNext]_vars

(***************************************************************************)
(* SpecGoals: one user sets fields of the profile with PUT /user/profile   *)
(* and asks the tracking handler for the progress toward the goals.        *)
(***************************************************************************)
ProfileValues ==
    [age |-> {12, 30, 45},
     gender |-> {"female", "male", "robot"},
     weight |-> {10, 60, 85},
     height |-> {160, 185},
     activity_level |-> {"sedentary", "lightly_active", "moderately_active",
                         "very_active", "extra_active", "extremely_active"},
     health_goals |-> {<<>>, <<"weight_loss">>, <<"muscle_gain">>}]

\* the request bodies: up to MaxProfileKeys fields of the profile
ProfileUpdates ==
    {[k \in keys |-> full[k]] :
        full \in [age : ProfileValues.age, gender : ProfileValues.gender,
                  weight : ProfileValues.weight, height : ProfileValues.height,
                  activity_level : ProfileValues.activity_level,
                  health_goals : ProfileValues.health_goals],
        keys \in {ks \in SUBSET DOMAIN ProfileValues :
                      Cardinality(ks) \in 1..MaxProfileKeys}}

GoalsInit ==
    /\ CoordinatorIdle
    /\ AgentConstructed
    /\ coroutines = EmptyDict
    /\ HandlerIdle
    /\ ServicesIdle

\* update_user_profile(profile_data, current_user)
UpdateUserProfile ==
    /\ \E profile_data \in ProfileUpdates :
        LET errors == validate_user_profile(profile_data)
        IN  IF errors # <<>>
            THEN /\ profile_response' = [kind |-> "rejected", errors |-> errors]
                 /\ UNCHANGED stored_profile
            ELSE /\ stored_profile' =
                        [k \in DOMAIN stored_profile |->
                            IF k \in DOMAIN profile_data THEN profile_data[k]
                            ELSE stored_profile[k]]
                 /\ profile_response' = [kind |-> "updated"]
    /\ UNCHANGED <<coordinator_vars, agent_vars, handler_vars, store_vars, meals,
                   trend_response>>

\* the personalized targets of DietTrackerAgent._analyze_goals(user_id, context)
AnalyzeGoals ==
    /\ profile_response' = [kind |-> "goals", profile |-> stored_profile,
                            targets |-> calculate_personalized_goals(stored_profile)]
    /\ UNCHANGED <<coordinator_vars, agent_vars, handler_vars, store_vars, meals,
                   trend_response, stored_profile>>

GoalsNext == UpdateUserProfile \/ AnalyzeGoals

SpecGoals == GoalsInit /\ [][GoalsNext]_vars

(***************************************************************************)
(* Properties.                                                             *)
(***************************************************************************)
\* the text of the exception that sanitising the context raised; the call
\* leaves `context` unsanitized exactly when it did
SanitizeFailed == "py" \in DOMAIN context

SanitizeErrorText ==
    IF context.py = "raises" THEN context.text
    ELSE "'str' object has no attribute 'items'"

\* C1: process_user_request returns an object in every case; when a stage
\* raises, the object carries an 'error' text and the status that the text
\* of the exception selects: quota_exceeded for '429', 'quota' or
\* 'rate limit', else config_error for 'api key', '401' or '403', else error.
C1_OuterCatchClassifies ==
    pc = "done" =>
        /\ "status" \in DOMAIN final_response
        /\ final_response.coordinator = "AgentCoordinator"
        /\ SanitizeFailed =>
            LET e == SanitizeErrorText
                quota == Contains("429", e) \/ Contains("quota", lower(e))
                         \/ Contains("rate limit", lower(e))
                config == Contains("api key", lower(e)) \/ Contains("401", e)
                          \/ Contains("403", e)
            IN  /\ "error" \in DOMAIN final_response
                /\ final_response.error # ""
                /\ final_response.status =
                        IF quota THEN "quota_exceeded"
                        ELSE IF config THEN "config_error"
                        ELSE "error"

\* C1 witness: an exception whose text names both an API key and a quota
\* was caught and reported as quota_exceeded
C1_Witness ==
    /\ pc = "done"
    /\ SanitizeFailed
    /\ context.py = "raises"
    /\ Contains("api key", lower(context.text))
    /\ final_response.status = "quota_exceeded"

\* the number of routing keywords of `agent` that occur in `text`
KeywordScore(agent, text) ==
    Cardinality({i \in DOMAIN routing_rules :
                    /\ routing_rules[i].agent = agent
                    /\ Contains(routing_rules[i].keyword, text)})

\* the position of `agent` in the handler map
AgentIndex(agent) == CHOOSE i \in DOMAIN AgentOrder : AgentOrder[i] = agent

\* C2: the primary handler has the highest keyword score; among handlers
\* of equal score the earliest of nutrition_calculator, recipe_finder,
\* diet_tracker is chosen; when every score is zero it is
\* nutrition_calculator.
C2_PrimaryIsHighestScore ==
    pc = "route" =>
        LET text == lower(message)
            primary == intent_analysis.primary_agent
        IN  /\ \A agent \in Agents :
                    intent_analysis.agent_scores[agent] = KeywordScore(agent, text)
            /\ \A agent \in Agents :
                    /\ KeywordScore(agent, text) <= KeywordScore(primary, text)
                    /\ KeywordScore(agent, text) = KeywordScore(primary, text)
                            => AgentIndex(primary) <= AgentIndex(agent)
            /\ (\A agent \in Agents : KeywordScore(agent, text) = 0)
                    => primary = "nutrition_calculator"

\* C2 witness: recipe_finder and diet_tracker tie above nutrition_calculator
\* and recipe_finder is the primary
C2_Witness ==
    /\ pc = "route"
    /\ intent_analysis.agent_scores["recipe_finder"] = 1
    /\ intent_analysis.agent_scores["diet_tracker"] = 1
    /\ intent_analysis.agent_scores["nutrition_calculator"] = 0
    /\ intent_analysis.primary_agent = "recipe_finder"

\* the routing keywords of `agent`, and all of them
KeywordsOf(agent) ==
    {routing_rules[i].keyword : i \in {j \in DOMAIN routing_rules :
                                            routing_rules[j].agent = agent}}

RoutingKeywords == UNION {KeywordsOf(agent) : agent \in Agents}

\* the words of a text
WordsOf(text) == {split(text)[i] : i \in DOMAIN split(text)}

\* C3: a message whose words include keywords of handler A, and whose other
\* words are no routing keyword, routes to A with score(A) >= 1 while every
\* other handler's score stays 0.
C3_OnlyOwnKeywordsRouteToOwner ==
    pc = "route" =>
        \A agent \in Agents :
            LET words == WordsOf(lower(message))
            IN  (/\ words \cap KeywordsOf(agent) # {}
                 /\ words \cap RoutingKeywords \subseteq KeywordsOf(agent))
                => /\ intent_analysis.primary_agent = agent
                   /\ intent_analysis.agent_scores[agent] >= 1
                   /\ \A other \in Agents \ {agent} :
                            intent_analysis.agent_scores[other] = 0

\* the agents of the first trigger, in table order, that the text contains
TriggeredAgents(text) ==
    LET found == {i \in DOMAIN collaboration_triggers :
                    Contains(collaboration_triggers[i].trigger, text)}
    IN  IF found = {} THEN <<>>
        ELSE collaboration_triggers[CHOOSE i \in found : \A j \in found : i <= j].agents

\* C4: the keys of the collaborations mapping are the handlers of the first
\* trigger phrase the lowercased message contains, minus the primary; with
\* no trigger, the handlers other than the primary with a nonzero score.
\* The primary is never a key.
C4_CollaboratorsByTriggerOrScore ==
    pc = "done" /\ ~SanitizeFailed =>
        LET text == lower(message)
            primary == intent_analysis.primary_agent
            triggered == TriggeredAgents(text)
            expected == IF triggered # <<>> THEN Range(triggered) \ {primary}
                        ELSE {agent \in Agents \ {primary} : KeywordScore(agent, text) > 0}
        IN  /\ Range(Keys(collaborations)) = expected
            /\ {calls[i].agent : i \in {j \in DOMAIN calls : calls[j].role = "collaborator"}}
                    = expected
            /\ primary \notin Range(Keys(collaborations))
            /\ Get(final_response, "collaborations", <<>>) = collaborations

\* C4 witness: 'Healthy recipe' routed to recipe_finder with
\* nutrition_calculator, a handler of score 0, as the only collaborator
C4_Witness ==
    /\ pc = "done"
    /\ ~SanitizeFailed
    /\ message = "Healthy recipe"
    /\ intent_analysis.primary_agent = "recipe_finder"
    /\ Keys(collaborations) = <<"nutrition_calculator">>

\* the calls made to collaborators, in order
CollaboratorCalls == SelectSeq(calls, LAMBDA call : call.role = "collaborator")

\* C5: when the primary handler's process_request raises, primary_response
\* is the error response of the coordinator (status 'error', agent = the
\* primary's id, a fixed message free of the exception's text), the
\* collaborators are still called, and the returned response has status
\* 'error' and that error response as primary_response.
C5_PrimaryFailureBecomesErrorResponse ==
    pc = "done" /\ ~SanitizeFailed /\ calls[1].raised =>
        LET primary == intent_analysis.primary_agent
            others == SelectSeq(intent_analysis.collaboration_needed,
                                LAMBDA agent : agent # primary)
        IN  /\ calls[1].agent = primary
            /\ calls[1].role = "primary"
            /\ primary_response = [error |-> "Agent " \o primary \o " encountered an error",
                                   status |-> "error",
                                   agent |-> primary]
            /\ \A exc \in FaultTexts : ~Contains(exc, primary_response.error)
            /\ Len(CollaboratorCalls) = Len(others)
            /\ final_response.status = "error"
            /\ final_response.primary_response = primary_response
            /\ final_response.primary_agent = primary

\* C5 witness: the primary raised, a collaborator was called after it, and
\* the compiled response reports the error
C5_Witness ==
    /\ pc = "done"
    /\ ~SanitizeFailed
    /\ calls[1].raised
    /\ Len(calls) >= 2
    /\ final_response.status = "error"

\* C6: the collaborations mapping holds exactly one entry per collaborator
\* other than the primary, in their order; a collaborator whose call raised
\* has an error entry, and the collaborators after it are called all the
\* same; the compiled response carries the mapping.
C6_CollaboratorFailureTolerated ==
    pc = "done" /\ ~SanitizeFailed =>
        LET primary == intent_analysis.primary_agent
            others == SelectSeq(intent_analysis.collaboration_needed,
                                LAMBDA agent : agent # primary)
        IN  /\ Keys(collaborations) = others
            /\ [i \in DOMAIN CollaboratorCalls |-> CollaboratorCalls[i].agent] = others
            /\ \A i \in DOMAIN CollaboratorCalls :
                    CollaboratorCalls[i].raised =>
                        collaborations[i][2] =
                            [error |-> "Collaboration with " \o others[i] \o " failed"]
            /\ others # <<>> => final_response.collaborations = collaborations
            /\ final_response.communication.agents_involved = <<primary>> \o others

\* C6 witness: the first of two collaborators raised and the second was
\* called and has its entry
C6_Witness ==
    /\ pc = "done"
    /\ ~SanitizeFailed
    /\ Len(CollaboratorCalls) = 2
    /\ CollaboratorCalls[1].raised
    /\ ~CollaboratorCalls[2].raised
    /\ Len(final_response.collaborations) = 2

\* C7: a handler in which an unexpected exception occurs does not raise; it
\* returns status 'error' with a message free of the exception's text, and
\* the coordinator then returns status 'error'.
C7_HandlersContainTheirExceptions ==
    pc \in {"collaborate", "done"} /\ ~SanitizeFailed =>
        /\ \A i \in DOMAIN calls : ~calls[i].raised
        /\ calls[1].fault =>
            /\ Get(primary_response, "status", Absent) = "error"
            /\ \A exc \in FaultTexts :
                    /\ ~Contains(exc, Get(primary_response, "error", ""))
                    /\ ~Contains(exc, Get(primary_response, "response", ""))
            /\ pc = "done" => final_response.status = "error"

HandlerStatuses == {"success", "no_data", "error", "info"}

\* C8: primary_response and every entry of collaborations carry a status
\* among success, no_data, error, info and a field naming the producing
\* handler; the status of the returned response is never 'unknown'.
C8_EveryResponseHasStatusAndHandler ==
    pc = "done" /\ ~SanitizeFailed =>
        /\ Get(primary_response, "status", Absent) \in HandlerStatuses
        /\ "agent" \in DOMAIN primary_response
        /\ \A i \in DOMAIN collaborations :
                /\ Get(collaborations[i][2], "status", Absent) \in HandlerStatuses
                /\ "agent" \in DOMAIN collaborations[i][2]
        /\ final_response.status # "unknown"

StaticFallback == "Multiple agents have provided information to help answer your question."

\* C9: when the text-generation call made for the synthesis fails, the
\* response is returned with primary_response and collaborations intact and
\* its synthesis is the coordinator's static fallback sentence.
C9_SynthesisFailureUsesStaticFallback ==
    pc = "done" /\ backend.kind = "raises" =>
        /\ final_response.primary_response = primary_response
        /\ final_response.collaborations = collaborations
        /\ final_response.synthesis = StaticFallback

\* C10: the returned response has a synthesis exactly when some collaborator
\* produced output, and then one generate_response call was made for it;
\* with no collaborator called there is no synthesis, no such call, and
\* collaboration_type is 'single_agent'.
C10_SynthesisIffCollaboratorOutput ==
    pc = "done" /\ ~SanitizeFailed =>
        LET produced == \E i \in DOMAIN CollaboratorCalls : ~CollaboratorCalls[i].raised
        IN  /\ "synthesis" \in DOMAIN final_response <=> produced
            /\ produced => synthesis_calls = 1
            /\ CollaboratorCalls = <<>> =>
                    /\ "synthesis" \notin DOMAIN final_response
                    /\ synthesis_calls = 0
                    /\ final_response.communication.collaboration_type = "single_agent"

\* C13: the history that the agent instance keeps for a user never holds
\* more than 50 turns, and it holds that user's most recent stored turns,
\* at most 50 of them, oldest first.
C13_HistoryIsLastFiftyTurns ==
    \A u \in AgentUsers :
        LET history == get_chat_history(chat_histories, u)
            log == Get(turn_log, u, <<>>)
            kept == IF Len(log) < 50 THEN Len(log) ELSE 50
        IN  /\ Len(history) <= 50
            /\ Len(history) = kept
            /\ \A i \in 1..kept :
                   /\ history[i].user_message = log[Len(log) - kept + i].user_message
                   /\ history[i].agent_response
                        = log[Len(log) - kept + i].agent_response

\* a user has had 51 turns stored, another user one, and a call stored none
C13_Witness ==
    /\ Len(Get(turn_log, "u1", <<>>)) = 51
    /\ Len(get_chat_history(chat_histories, "u1")) = 50
    /\ Len(get_chat_history(chat_histories, "u2")) = 1
    /\ call_count = 53

\* the canned texts of generate_response for a quota error
QuotaTexts ==
    {"**API Quota Limit Reached**", "**AI Service Temporarily Limited**",
     "**AI Analysis Temporarily Unavailable**", "**AI Service Quota Exceeded**"}

\* C11: generate_response returns a text and never raises, whatever the
\* prompt, the context and the backend do; when the backend raises, the
\* text is the canned message of the class of the exception text - quota
\* for '429', 'quota' or 'rate limit', else configuration for 'api key',
\* '401' or '403', else the generic apology - and never the exception text.
C11_GenerateResponseFailsSoft ==
    last_call # NoCall =>
        LET exc == last_call.outcome.text
            text == last_call.result.response
            quota == Contains("429", exc) \/ Contains("quota", lower(exc))
                     \/ Contains("rate limit", lower(exc))
            config == Contains("api key", lower(exc)) \/ Contains("401", exc)
                      \/ Contains("403", exc)
        IN  /\ ~last_call.result.raised
            /\ Len(text) >= 0
            /\ last_call.outcome.kind = "raises" =>
                   /\ ~Contains(exc, text)
                   /\ IF quota THEN text \in QuotaTexts
                      ELSE IF config
                      THEN text = "API configuration issue detected. Using offline mode. Please check your API keys in the .env file."
                      ELSE text = "I apologize, but I encountered an error while processing your request. Please try again."

\* the backend raised an exception whose text names both a quota and an
\* API key (and 403), and the call returned the quota message
C11_Witness ==
    /\ last_call.outcome.kind = "raises"
    /\ last_call.outcome.text = "403 Quota exceeded for this API key"
    /\ last_call.result.response = "**AI Service Temporarily Limited**"
    /\ last_call.user_id = "u1"

\* C12: any two backend generation calls made through the same agent
\* instance start at least min_delay_between_calls (one second) apart,
\* also when the calls of concurrent requests interleave at the sleep.
C12_GenerationCallsOneSecondApart ==
    \A i, j \in DOMAIN generation_starts :
        i < j => generation_starts[j] - generation_starts[i] >= 1 * TicksPerSecond

\* C17: the request a collaborator receives follows the template of the
\* pair (handler selected as primary, target): nutrition to recipe passes
\* the primary's food_analysis as nutritional_criteria (find_recipes);
\* recipe to nutrition passes the first recipe found (calculate_recipe)
\* when the primary found one; any handler to tracking passes the whole
\* primary response as data_to_track (insights); every other case passes
\* the whole primary response as collaboration_data (general).
C17_HandoffFollowsTemplate ==
    \A i \in DOMAIN calls :
        calls[i].role = "collaborator" =>
            LET selected == intent_analysis.primary_agent
                target == calls[i].agent
                handoff == calls[i].request
            IN  IF selected = "nutrition_calculator" /\ target = "recipe_finder"
                THEN /\ handoff.type = "find_recipes"
                     /\ handoff.nutritional_criteria
                            = Get(primary_response, "food_analysis", EmptyDict)
                ELSE IF selected = "recipe_finder" /\ target = "nutrition_calculator"
                        /\ Get(primary_response, "recipes", <<>>) # <<>>
                THEN /\ handoff.type = "calculate_recipe"
                     /\ handoff.recipe = primary_response.recipes[1]
                ELSE IF target = "diet_tracker"
                THEN /\ handoff.type = "insights"
                     /\ handoff.data_to_track = primary_response
                ELSE /\ handoff.type = "general"
                     /\ handoff.collaboration_data = primary_response

\* the recipe handler was primary and found recipes, and the nutrition
\* handler received the first of them
C17_Witness ==
    /\ pc = "done"
    /\ Get(intent_analysis, "primary_agent", Absent) = "recipe_finder"
    /\ \E i \in DOMAIN calls :
            /\ calls[i].role = "collaborator"
            /\ calls[i].agent = "nutrition_calculator"
            /\ calls[i].request.type = "calculate_recipe"
            /\ calls[i].request.recipe = primary_response.recipes[1]

\* the handler was sent a message that asks for the analysis of a food
FromMessage ==
    /\ handler = "nutrition_calculator"
    /\ "message" \in DOMAIN handler_request
    /\ "food_data" \notin DOMAIN handler_request
    /\ handler_pc \in {"search", "analyze", "insights", "done"}

\* the absolute value of an integer
Abs(x) == IF x < 0 THEN -x ELSE x

\* C14: quantity scaling is linear: the calories for twice a quantity are
\* twice the calories for the quantity, within a rounding tolerance (0.2),
\* for every food scaled from a reference, every quantity and every unit,
\* both in the results of the data service and in those of the table.
C14_ScalingIsLinear ==
    handler_pc = "insights" /\ Get(nutrition_info, "source", "USDA") \in {"USDA", "database"} =>
        LET doubled ==
                IF data_source = "USDA"
                THEN process_usda_data(usda_data.foods[1], 2 * food_item.quantity,
                                       food_item.unit)
                ELSE table_estimation(food_item.name, 2 * food_item.quantity,
                                      food_item.unit)
        IN  \A twice \in doubled :
                Abs(twice.calories - 2 * nutrition_info.calories) <= 20

\* the lookup failed: the service answered with a status other than 200, or
\* the request raised
LookupFailed ==
    \/ usda_outcome.kind = "raises"
    \/ usda_outcome.kind = "response" /\ usda_outcome.status_code # 200

\* C15: when the remote lookup fails, it returns not-found without raising,
\* and the food analysis falls back to values of the table, of the AI
\* estimate or of the defaults: 'source' is 'database', 'AI_estimation' or
\* 'default', data_source is 'AI_Estimation' and the status is 'success'.
C15_LookupFailureFallsBack ==
    LookupFailed =>
        /\ usda_data = NoUsdaData
        /\ handler_pc \in {"insights", "done"} =>
               /\ data_source = "AI_Estimation"
               /\ nutrition_info.source \in {"database", "AI_estimation", "default"}
        /\ handler_pc = "done" =>
               /\ analysis.data_source = "AI_Estimation"
               /\ analysis.status = "success"
               /\ analysis.food_analysis = nutrition_info
               /\ ~handler_response.raised
               /\ handler_response.response.status = "success"

\* the request for tofu raised, the text backend gave no JSON, and the
\* analysis carries the default values
C15_Witness ==
    /\ handler_pc = "done"
    /\ usda_outcome.kind = "raises"
    /\ food_item.name = "tofu"
    /\ nutrition_info.source = "default"
    /\ analysis.data_source = "AI_Estimation"

\* C16: each of the three handlers answers a request that lacks 'message'
\* with an error message, before any lookup, history read or generation.
C16_MissingMessageIsRejected ==
    handler_pc = "done" /\ "message" \notin DOMAIN handler_request =>
        /\ ~handler_response.raised
        /\ ~handler_response.fault
        /\ "error" \in DOMAIN handler_response.response
        /\ food_item = EmptyDict

\* grams of one unit, in hundredths
UnitFactor(unit) ==
    CASE unit = "cups" -> 24000
      [] unit = "tablespoons" -> 1500
      [] unit = "teaspoons" -> 500
      [] unit = "grams" -> 100
      [] unit = "ounces" -> 2835
      [] unit = "pounds" -> 45360

\* C18: a numeral followed by a unit word takes priority over every other
\* reading of the message: for every numeral n and every unit among cups,
\* tablespoons, teaspoons, grams, ounces and pounds the quantity is n times
\* the factor of the unit (240, 15, 5, 1, 28.35, 453.6), in 'g'.
C18_NumeralWithUnitTakesPriority ==
    FromMessage /\ phrase.kind = "numeral_unit" =>
        /\ food_item.quantity = phrase.n * UnitFactor(phrase.unit)
        /\ food_item.unit = "g"

\* C19: a message without a quantity is read as one standard serving: 100 g
\* of a food referenced by mass, and one item of a food weighed by the item
\* (one egg: the per-egg values of the table, scaled by 1.0).
C19_NoQuantityIsOneServing ==
    FromMessage /\ phrase.kind = "none" =>
        IF food_item.name = "egg"
        THEN handler_pc \in {"insights", "done"} /\ nutrition_info.source = "database" =>
                \A k \in Range(StandardNutrients) :
                    nutrition_info[k] = common_foods_nutrition.egg[k]
        ELSE food_item.quantity = 100 * 100 /\ food_item.unit = "g"

TypeOfText(text) ==
    LET has(keywords) == \E k \in keywords : Contains(k, text)
    IN  IF has({"analyze", "nutrition", "breakdown"}) THEN "analyze_food"
        ELSE IF has({"search", "find food", "lookup"}) THEN "search_food"
        ELSE IF has({"recipe", "cooking", "meal ideas"}) THEN "find_recipes"
        ELSE IF has({"log", "add", "record", "ate"}) THEN "log_food"
        ELSE IF has({"summary", "today", "progress"}) THEN "daily_summary"
        ELSE IF has({"suggest", "recommend", "advice"}) THEN "recommendations"
        ELSE "general"

C21_RequestTypeIsFirstTableMatch ==
    /\ "request_type" \in DOMAIN intent_analysis =>
            intent_analysis.request_type = TypeOfText(lower(message))
    /\ Len(calls) >= 1 =>
            /\ calls[1].role = "primary"
            /\ calls[1].request.type = TypeOfText(lower(message))

\* a message with keywords of two rows, whose earlier row belongs to
\* another handler than the primary, has been routed
C21_Witness ==
    /\ pc = "done"
    /\ Contains("recipe", message) /\ Contains("lookup", message)
    /\ intent_analysis.primary_agent = "recipe_finder"
    /\ calls[1].request.type = "search_food"

\* the dates of the stored meals, ascending, and the calories of a date
MealDates == sorted({meals[i].date : i \in DOMAIN meals})

CaloriesOn(day) ==
    LET of_day == SelectSeq(meals, LAMBDA m : m.date = day)
    IN  sum_over([i \in DOMAIN of_day |-> of_day[i].calories],
                 [i \in DOMAIN of_day |-> i])

\* (second average - first average) * n, the averages taken over the
\* first n and the following n dates
HalvesDifference(n) ==
    sum_over([d \in Range(MealDates) |-> CaloriesOn(d)], SubSeq(MealDates, n + 1, 2 * n))
    - sum_over([d \in Range(MealDates) |-> CaloriesOn(d)], SubSeq(MealDates, 1, n))

\* C22: for a calorie series of at least two days the trend analysis
\* reports the signed difference of the averages of the second and the
\* first half (of week 2 and week 1 when there are 14 days or more).
C22_TrendDifferenceReported ==
    (trend_response # EmptyDict /\ Len(MealDates) >= 2) =>
        LET n == IF Len(MealDates) >= 14 THEN 7 ELSE Len(MealDates) \div 2
            comparison == trend_response.response.weekly_comparison
        IN  /\ comparison # EmptyDict
            /\ comparison.change.sign = (IF HalvesDifference(n) >= 0 THEN "+" ELSE "-")
            /\ LET shown == comparison.change.digits * n
                    exact == Abs(HalvesDifference(n))
                IN  2 * Abs(shown - exact) <= n

\* the part of C22 that holds: with 14 days or more, and calories in both
\* weeks, the difference of the two weekly averages is reported
C22_TwoWeeksDifferenceReported ==
    (/\ trend_response # EmptyDict
     /\ Len(MealDates) >= 14
     /\ \E d \in 1..7 : CaloriesOn(MealDates[d]) # 0
     /\ \E d \in 8..14 : CaloriesOn(MealDates[d]) # 0) =>
        LET comparison == trend_response.response.weekly_comparison
        IN  /\ comparison # EmptyDict
            /\ comparison.change.sign = (IF HalvesDifference(7) >= 0 THEN "+" ELSE "-")
            /\ 2 * Abs(comparison.change.digits * 7 - Abs(HalvesDifference(7))) <= 7

\* no request is under way
Quiescent == \A c \in Slots : requests[c] = NoRequest

\* C23: after any sequence of session creations, activations, chat
\* requests and deletions, interleaved at their database awaits or not, at
\* most one session of a user has is_active = true.
C23_AtMostOneActiveSession ==
    Quiescent =>
        \A u \in ChatUsers : Cardinality(active_sessions(chat_sessions, u)) <= 1

\* every stored message is of the user who owns its session
MessagesBelongToSessionOwner ==
    \A i \in DOMAIN chat_messages :
        chat_messages[i].session_id \in DOMAIN chat_sessions =>
            chat_sessions[chat_messages[i].session_id].user_id
                = chat_messages[i].user_id

\* a step of a request leaves the sessions of the other users as they are
NoForeignChange ==
    \A id \in DOMAIN chat_sessions :
        (chat_sessions[id].user_id # actor' /\ id \in DOMAIN chat_sessions') =>
            chat_sessions'[id] = chat_sessions[id]

\* C24: a chat request of a user never writes into or changes a session of
\* another user, whatever session_id it supplies.
C24_SessionsIsolatedBetweenUsers ==
    []MessagesBelongToSessionOwner /\ [][NoForeignChange]_vars

\* C25: the message_count of every session equals the number of messages
\* stored with its id, after any sequence of chat requests, clear-history
\* requests and session deletions, interleaved or not.
C25_MessageCountIsNumberOfMessages ==
    Quiescent =>
        \A id \in DOMAIN chat_sessions :
            chat_sessions[id].message_count
                = Len(SelectSeq(chat_messages, LAMBDA m : m.session_id = id))

\* C26: the context passed to the primary handler, to every collaborator
\* and to the synthesis has user_id equal to the user_id argument of
\* process_user_request, also when the caller's context carries a user_id
\* entry of its own.
C26_HandlersSeeTheCallersUserId ==
    /\ \A i \in DOMAIN calls : Get(calls[i].context, "user_id", Absent) = user_id
    /\ synthesis_calls > 0 => Get(synthesis_context, "user_id", Absent) = user_id

\* a request whose context named another user has reached the primary
\* handler, a collaborator and the synthesis
C26_Witness ==
    /\ pc = "done"
    /\ "goal" \in DOMAIN context
    /\ \E i \in DOMAIN calls : calls[i].role = "collaborator"
    /\ synthesis_calls = 1
    /\ synthesis_context.user_id = "u1"

\* C27: a message that asks to analyze a food (it contains 'analyze' or
\* 'nutrition', and names the food) and is routed to the nutrition handler
\* is answered with a food_analysis and status 'success', never with
\* 'Food name is required'.
C27_RoutedAnalysisIsAnswered ==
    (/\ Len(calls) >= 1
     /\ calls[1].agent = "nutrition_calculator"
     /\ ~calls[1].fault
     /\ \/ Contains("analyze", lower(message))
        \/ Contains("nutrition", lower(message))
     /\ Contains("oatmeal", message)) =>
        /\ Get(primary_response, "error", Absent) # "Food name is required"
        /\ "food_analysis" \in DOMAIN primary_response
        /\ Get(primary_response, "status", Absent) = "success"

\* the entry of the nutrition handler in collaborations, or {}
NutritionCollaboration ==
    LET entries == {i \in DOMAIN collaborations :
                        collaborations[i][1] = "nutrition_calculator"}
    IN  IF entries = {} THEN EmptyDict
        ELSE collaborations[CHOOSE i \in entries : TRUE][2]

\* C28: when the recipe handler is primary and found a recipe with
\* ingredients, and the nutrition handler is a collaborator, its
\* collaboration entry is a recipe_nutrition result with status 'success'.
C28_FoundRecipeGetsItsNutrition ==
    (/\ Get(intent_analysis, "primary_agent", Absent) = "recipe_finder"
     /\ Get(primary_response, "recipes", <<>>) # <<>>
     /\ primary_response.recipes[1].ingredients # <<>>
     /\ \E i \in DOMAIN calls : /\ calls[i].role = "collaborator"
                                 /\ calls[i].agent = "nutrition_calculator") =>
        /\ "recipe_nutrition" \in DOMAIN NutritionCollaboration
        /\ Get(NutritionCollaboration, "status", Absent) = "success"

\* the histories of the instance that a call was made on, and of the other
HistoriesOf(instance, own, peer) == IF instance = 1 THEN own ELSE peer

\* the effect on the histories of the generate_response call that a step makes
CallFrame ==
    LET call == last_call'
        u == call.user_id
        before == HistoriesOf(call.instance, chat_histories, peer_histories)
        after == HistoriesOf(call.instance, chat_histories', peer_histories')
        others_before == HistoriesOf(3 - call.instance, chat_histories, peer_histories)
        others_after == HistoriesOf(3 - call.instance, chat_histories', peer_histories')
        old == Get(before, u, <<>>)
        kept == IF Len(old) < history_cap THEN old
                ELSE SubSeq(old, Len(old) - history_cap + 2, Len(old))
        turn == [user_message |-> call.prompt,
                 agent_response |-> call.result.response,
                 agent |-> NutritionName, metadata |-> [user_id |-> u]]
    IN  IF call.outcome.kind \in {"raises", "empty"} \/ u = Absent
        THEN /\ chat_histories' = chat_histories
             /\ peer_histories' = peer_histories
        ELSE /\ others_after = others_before
             /\ DOMAIN after = DOMAIN before \cup {u}
             /\ \A v \in DOMAIN before \ {u} : after[v] = before[v]
             /\ after[u] = Append(kept, turn)

\* C29: a generate_response call whose backend raises or returns no text,
\* or whose context has no user_id, leaves every history of every instance
\* as it was; a call that succeeds for user u puts exactly one turn, its
\* own, at the end of u's history on the instance it was made on (the
\* oldest turn leaves a history that already holds 50), and changes no
\* other user's history and no history of the other instance.
C29_CallChangesOnlyItsUsersHistory == [][CallFrame]_vars

\* both instances have stored a turn: the second one for u2, of whom the
\* first instance holds nothing, and the first one a 51st turn for u1
C29_Witness ==
    /\ last_call.instance = 2
    /\ last_call.outcome.kind = "text"
    /\ last_call.user_id = "u2"
    /\ Len(Get(peer_histories, "u2", <<>>)) = 1
    /\ "u2" \notin DOMAIN chat_histories
    /\ Len(Get(chat_histories, "u1", <<>>)) = history_cap
    /\ Len(Get(turn_log, "u1", <<>>)) > history_cap

\* the place of a level in the validator's list, from the least active
LevelRank(level) == CHOOSE i \in DOMAIN valid_levels : valid_levels[i] = level

\* C30: when goals are calculated for a profile whose activity level the
\* validation accepts, the level has its own entry in the multiplier table,
\* and the calorie goal is at least the calorie goal of the same profile at
\* every less active accepted level.
C30_EveryValidLevelHasItsMultiplier ==
    (/\ profile_response.kind = "goals"
     /\ profile_response.targets # PyNone
     /\ validate_user_profile(
            [k \in {"activity_level"} |-> profile_response.profile.activity_level])
        = <<>>) =>
        LET profile == profile_response.profile
            level == profile.activity_level
        IN  /\ level \in DOMAIN activity_multipliers
            /\ \A i \in 1..(LevelRank(level) - 1) :
                   calculate_personalized_goals(
                       [profile EXCEPT !.activity_level = valid_levels[i]]).calories
                   <= profile_response.targets.calories
====
